---- MODULE Spec2Model ----
(***************************************************************************)
(* A model of go-llmbridge's OpenAI adapter (package openai): the client   *)
(* built by New, and the eight public operations as handlers that run in   *)
(* three steps: Invoke (argument checks and request preparation), Send     *)
(* (serialisation and client.Do) and Respond (status check and decoding).  *)
(* Errors are the message strings of the source.                           *)
(***************************************************************************)
EXTENDS Integers, Sequences, FiniteSets, TLC

VARIABLES client, calls, heap

vars == <<client, calls, heap>>

(***************************************************************************)
(* Bounds of the model.                                                    *)
(***************************************************************************)
\* number of call slots (goroutines that may be inside an operation)
MaxCalls == 2
\* number of ClientOption values handed to New
MaxOpts == 1

Calls == 1..MaxCalls

(***************************************************************************)
(* Go values.                                                              *)
(***************************************************************************)
\* a nil pointer, and a pointer to a value
Nil == [ptr |-> "nil"]
Ptr(v) == [ptr |-> "val", val |-> v]
\* a pointer to the request body object o of the caller's heap
Ref(o) == [ptr |-> "obj", id |-> o]
\* a nil interface{} value, and an interface{} holding a list
NilIface == [iface |-> "nil"]
Iface(v) == [iface |-> "val", val |-> v]
\* a nil (or empty) map[string]interface{}
NilMap == <<>>
MapLen(m) == Cardinality(DOMAIN m)

(***************************************************************************)
(* Endpoints and defaults (openai.interfaces.go).                          *)
(***************************************************************************)
OAUrlBase == "https://api.openai.com/v1"
OAUrlTextCompletions == OAUrlBase \o "/chat/completions"
OAUrlImageGenerationsDallE == OAUrlBase \o "/images/generations"
OAUrlTextToSpeech == OAUrlBase \o "/audio/speech"
OAUrlSTTTranscription == OAUrlBase \o "/audio/transcriptions"
OAUrlSTTTranslation == OAUrlBase \o "/audio/translations"
OABaseModel == "gpt-4o-mini"
StatusOK == 200

\* the *http.Client values of the model: DefaultConfig's client (60 s timeout),
\* a client supplied by the caller, and the zero client &http.Client{}
DefaultHTTPClient == "timeout60s"
CallerHTTPClient == "callerClient"
ZeroHTTPClient == "zeroClient"

\* a URL http.NewRequest cannot parse
BadUrl == "://bad"
CallerUrl == "https://proxy.local/v1/chat/completions"
CallerModel == "gpt-4o"

DefaultConfig ==
    [httpClient |-> DefaultHTTPClient,
     openAIBaseUrl |-> OAUrlTextCompletions,
     openAIModel |-> OABaseModel]

WithHTTPClient(h) == [opt |-> "httpClient", val |-> h]
WithBaseUrl(u) == [opt |-> "baseUrl", val |-> u]
WithModel(m) == [opt |-> "model", val |-> m]

\* opt(config): a ClientOption applied to the configuration
ApplyOpt(cfg, o) ==
    IF o.opt = "httpClient" THEN [cfg EXCEPT !.httpClient = o.val]
    ELSE IF o.opt = "baseUrl" THEN [cfg EXCEPT !.openAIBaseUrl = o.val]
    ELSE [cfg EXCEPT !.openAIModel = o.val]

RECURSIVE ApplyOpts(_, _)
ApplyOpts(cfg, opts) ==
    IF opts = <<>> THEN cfg
    ELSE ApplyOpts(ApplyOpt(cfg, Head(opts)), Tail(opts))

\* a mutant: New does not look at the key
NewClientNoKeyCheck(apiKey, opts) ==
    [state |-> "ready", err |-> "", apiKey |-> apiKey,
     config |-> ApplyOpts(DefaultConfig, opts)]

\* the (OpenAI, error) pair New returns
NewClient(apiKey, opts) ==
    IF apiKey = ""
    THEN [state |-> "failed", err |-> "API Key is empty", apiKey |-> "",
          config |-> DefaultConfig]
    ELSE [state |-> "ready", err |-> "", apiKey |-> apiKey,
          config |-> ApplyOpts(DefaultConfig, opts)]

\* before New is called
NoClient == [state |-> "unbuilt", err |-> "", apiKey |-> "", config |-> DefaultConfig]

\* &openaiAPI{apiKey: k, config: DefaultConfig()} written inside the package
LiteralClient(k) == [state |-> "ready", err |-> "", apiKey |-> k, config |-> DefaultConfig]

ApiKeys == {"", "sk-test"}
Options ==
    {WithHTTPClient(CallerHTTPClient), WithBaseUrl(CallerUrl), WithBaseUrl(BadUrl),
     WithModel(CallerModel)}
OptLists == UNION {[1..n -> Options] : n \in 0..MaxOpts}

(***************************************************************************)
(* Outcomes of a handler.                                                  *)
(***************************************************************************)
NoRet == [kind |-> "none", msg |-> "", detail |-> ""]
\* return nil, errors.New(msg + detail)
Fail(msg, detail) == [kind |-> "error", msg |-> msg, detail |-> detail]
\* a run-time panic (nil dereference, index out of range): nothing is returned
Panic(msg) == [kind |-> "panic", msg |-> msg, detail |-> ""]
\* the checks passed
Pass == [kind |-> "ok", msg |-> "", detail |-> ""]
\* return &result, nil
Result(v) == [kind |-> "result", msg |-> "", detail |-> "", val |-> v]

(***************************************************************************)
(* JSON as encoding/json writes it: an object is the sequence of its       *)
(* <<key, value>> members in struct-field order, an omitempty field is     *)
(* left out when it holds its zero value.                                  *)
(***************************************************************************)
JNull == [j |-> "null"]
JArray(items) == [j |-> "array", items |-> items]

HasField(obj, k) == \E i \in 1..Len(obj) : obj[i][1] = k
JField(obj, k) == obj[CHOOSE i \in 1..Len(obj) : obj[i][1] = k][2]

\* json.Marshal of one OAMessageReq
MarshalMessage(m) == <<<<"role", m.Role>>, <<"content", m.Content>>>>

\* json.Marshal of the Messages interface{} (nil, or a list of OAMessageReq)
MarshalMessages(ms) ==
    IF ms = NilIface THEN JNull
    ELSE JArray([i \in 1..Len(ms.val) |-> MarshalMessage(ms.val[i])])

\* json.Marshal of an OAReqBodyMessageCompletion. Of the omitempty fields the
\* model keeps Store and ResponseFormat.
MarshalCompletion(b) ==
    <<<<"messages", MarshalMessages(b.Messages)>>, <<"model", b.Model>>>>
    \o (IF b.Store THEN <<<<"store", TRUE>>>> ELSE <<>>)
    \o (IF MapLen(b.ResponseFormat) # 0
        THEN <<<<"response_format", b.ResponseFormat>>>> ELSE <<>>)

(***************************************************************************)
(* Chat completion (OACreateResponseFormat, OpenAISendMessage,             *)
(* OpenAIGetFirstContentDataResp).                                         *)
(***************************************************************************)
\* a mutant: the envelope is tagged json_object and the name is dropped
OACreateResponseFormatUntagged(jsonName, jsonSchema) ==
    [type |-> "json_object",
     json_schema |-> [name |-> "", schema |-> jsonSchema]]

OACreateResponseFormat(jsonName, jsonSchema) ==
    [type |-> "json_schema",
     json_schema |-> [name |-> jsonName, schema |-> jsonSchema]]

ErrApiKey == "API Key is empty"
ErrFormatResponse == "format_response must be provided when with_format_response is true"
ErrReqBodyCustom == "req_body_custom must be provided when with_custom_reqbody is true"
ErrContent == "content must be provided"
ErrMarshal == "Failed to marshal request body"
ErrCreateRequest == "Failed to create request"
ErrSendRequest == "Failed to send request: "
ErrDecode == "Failed to decode response: "

\* a mutant: the custom-body check runs before the format_response check
SendMessageCheckBodyFirst(cl, a, hp) ==
    IF cl.apiKey = "" THEN Fail(ErrApiKey, "")
    ELSE IF a.with_custom_reqbody /\ a.req_body_custom = Nil
    THEN Panic("nil pointer dereference")
    ELSE IF a.with_custom_reqbody /\ hp[a.req_body_custom.id].Messages = NilIface
    THEN Fail(ErrReqBodyCustom, "")
    ELSE IF a.with_format_response /\ a.format_response = Nil
    THEN Fail(ErrFormatResponse, "")
    ELSE IF ~a.with_custom_reqbody /\ a.content = Nil THEN Fail(ErrContent, "")
    ELSE Pass

\* the checks of OpenAISendMessage, in order. req_body_custom.Messages is read
\* through the pointer: a nil req_body_custom panics.
SendMessageCheck(cl, a, hp) ==
    IF cl.apiKey = "" THEN Fail(ErrApiKey, "")
    ELSE IF a.with_format_response /\ a.format_response = Nil
    THEN Fail(ErrFormatResponse, "")
    ELSE IF a.with_custom_reqbody /\ a.req_body_custom = Nil
    THEN Panic("nil pointer dereference")
    ELSE IF a.with_custom_reqbody /\ hp[a.req_body_custom.id].Messages = NilIface
    THEN Fail(ErrReqBodyCustom, "")
    ELSE IF ~a.with_custom_reqbody /\ a.content = Nil THEN Fail(ErrContent, "")
    ELSE Pass

\* req_body_custom.ResponseFormat = *format_response: a write to the caller's object
SendMessageInject(a, hp) ==
    IF a.with_custom_reqbody /\ a.with_format_response
    THEN [hp EXCEPT ![a.req_body_custom.id].ResponseFormat = a.format_response.val]
    ELSE hp

\* reqBody: the caller's pointer on the custom path, a fresh reqData otherwise
SendMessageReqBody(cl, a) ==
    IF a.with_custom_reqbody THEN a.req_body_custom
    ELSE Ptr([Messages |-> Iface(a.content.val),
              Model |-> cl.config.openAIModel,
              Store |-> FALSE,
              ResponseFormat |->
                  IF a.with_format_response THEN a.format_response.val ELSE NilMap])

\* what json.Marshal(reqBody) reads: the caller's object as it is when Marshal runs
Deref(reqBody, hp) == IF reqBody.ptr = "obj" THEN hp[reqBody.id] ELSE reqBody.val

\* the decoded OAChatCompletionResp: the fields of the document the struct names
DecodeChat(doc) == [ID |-> doc.id, Choices |-> doc.choices]

\* OpenAISendMessage from the return of client.Do on: the deferred cleanup does
\* not change what is returned
SendMessageFinish(r) ==
    IF r.net # "ok" THEN Fail(ErrSendRequest, r.net)
    ELSE IF r.code # StatusOK THEN Fail(ErrSendRequest, r.status)
    ELSE IF ~r.readOK \/ ~r.json THEN Fail(ErrDecode, "")
    ELSE Result(DecodeChat(r.doc))

\* OpenAIGetFirstContentDataResp: resp.Choices[0] panics on an empty list
GetFirstContentFinish(r) ==
    LET sent == SendMessageFinish(r) IN
    IF sent.kind # "result" THEN sent
    ELSE IF Len(sent.val.Choices) = 0 THEN Panic("index out of range [0] with length 0")
    ELSE Result(sent.val.Choices[1].Message)

(***************************************************************************)
(* Vision content (OACreateOneContentVision).                              *)
(***************************************************************************)
ErrVisionPayload == "media_type and url_or_base64encoding must be provided"
ErrVisionNoMediaType == "media_type must be provided when using base64 encoding"
ErrVisionMediaType == "media_type must be image/png, image/jpeg, or image/jpg"

\* the OAContentVisionBaseReq values the function builds
ImageBlock(url) == [Type |-> "image_url", Text |-> Nil, ImageUrl |-> Ptr([Url |-> url])]
TextBlock(text) == [Type |-> "text", Text |-> Ptr(text), ImageUrl |-> Nil]

\* a mutant: only the three media types the error message names are accepted
OACreateOneContentVisionThreeTypes(media_type, using_image_url, url_or_base64encoding, text_content) ==
    IF url_or_base64encoding = "" THEN Fail(ErrVisionPayload, "")
    ELSE IF media_type = "" /\ ~using_image_url THEN Fail(ErrVisionNoMediaType, "")
    ELSE IF ~using_image_url /\ media_type # "image/png" /\ media_type # "image/jpeg"
            /\ media_type # "image/jpg"
    THEN Fail(ErrVisionMediaType, "")
    ELSE Result(<<ImageBlock(IF using_image_url THEN url_or_base64encoding
                             ELSE "data:" \o media_type \o ";base64,"
                                  \o url_or_base64encoding)>>
                \o (IF text_content # "" THEN <<TextBlock(text_content)>> ELSE <<>>))

OACreateOneContentVision(media_type, using_image_url, url_or_base64encoding, text_content) ==
    IF url_or_base64encoding = "" THEN Fail(ErrVisionPayload, "")
    ELSE IF media_type = "" /\ ~using_image_url THEN Fail(ErrVisionNoMediaType, "")
    ELSE IF ~using_image_url /\ media_type # "image/png" /\ media_type # "image/jpeg"
            /\ media_type # "image/jpg" /\ media_type # "image/gif"
            /\ media_type # "image/webp"
    THEN Fail(ErrVisionMediaType, "")
    ELSE LET imageData == IF using_image_url THEN url_or_base64encoding
                          ELSE "data:" \o media_type \o ";base64,"
                               \o url_or_base64encoding
             contentVision == <<ImageBlock(imageData)>>
         IN
         Result(IF text_content # "" THEN Append(contentVision, TextBlock(text_content))
                ELSE contentVision)

(***************************************************************************)
(* Image generation (OpenAICreateImageDallE).                              *)
(***************************************************************************)
ErrImageModel == "Model must be dall-e-2 or dall-e-3"
ErrImageN == "N must be between 1 and 10"
ErrImageQualityModel == "Quality is only supported for dall-e-3 model"
ErrImageQuality == "Quality must be standard or hd"
ErrImageStyleModel == "Style is only supported for dall-e-3 model"
ErrImageStyle == "Style must be vivid or natural"
ErrImageFormat == "ResponseFormat must be url or b64_json"

\* a mutant: no test that Style is set with dall-e-3 only
CreateImageCheckNoStyleModel(cl, q) ==
    IF q.Model = "" \/ (q.Model # "dall-e-2" /\ q.Model # "dall-e-3")
    THEN Fail(ErrImageModel, "")
    ELSE IF q.N # Nil /\ (q.N.val < 1 \/ q.N.val > 10) THEN Fail(ErrImageN, "")
    ELSE IF q.Model # "dall-e-3" /\ q.Quality # Nil THEN Fail(ErrImageQualityModel, "")
    ELSE IF q.Quality # Nil /\ (q.Quality.val # "standard" /\ q.Quality.val # "hd")
    THEN Fail(ErrImageQuality, "")
    ELSE IF q.Style # Nil /\ (q.Style.val # "vivid" /\ q.Style.val # "natural")
    THEN Fail(ErrImageStyle, "")
    ELSE IF q.ResponseFormat # Nil
            /\ (q.ResponseFormat.val # "url" /\ q.ResponseFormat.val # "b64_json")
    THEN Fail(ErrImageFormat, "")
    ELSE IF cl.apiKey = "" THEN Fail(ErrApiKey, "")
    ELSE Pass

\* a mutant: the values of Quality and Style are tested before the model they
\* are set with
CreateImageCheckValuesFirst(cl, q) ==
    IF q.Model = "" \/ (q.Model # "dall-e-2" /\ q.Model # "dall-e-3")
    THEN Fail(ErrImageModel, "")
    ELSE IF q.N # Nil /\ (q.N.val < 1 \/ q.N.val > 10) THEN Fail(ErrImageN, "")
    ELSE IF q.Quality # Nil /\ (q.Quality.val # "standard" /\ q.Quality.val # "hd")
    THEN Fail(ErrImageQuality, "")
    ELSE IF q.Style # Nil /\ (q.Style.val # "vivid" /\ q.Style.val # "natural")
    THEN Fail(ErrImageStyle, "")
    ELSE IF q.Model # "dall-e-3" /\ q.Quality # Nil THEN Fail(ErrImageQualityModel, "")
    ELSE IF q.Model # "dall-e-3" /\ q.Style # Nil THEN Fail(ErrImageStyleModel, "")
    ELSE IF q.ResponseFormat # Nil
            /\ (q.ResponseFormat.val # "url" /\ q.ResponseFormat.val # "b64_json")
    THEN Fail(ErrImageFormat, "")
    ELSE IF cl.apiKey = "" THEN Fail(ErrApiKey, "")
    ELSE Pass

\* the input checks of OpenAICreateImageDallE and its API key check, in order
CreateImageCheck(cl, q) ==
    IF q.Model = "" \/ (q.Model # "dall-e-2" /\ q.Model # "dall-e-3")
    THEN Fail(ErrImageModel, "")
    ELSE IF q.N # Nil /\ (q.N.val < 1 \/ q.N.val > 10) THEN Fail(ErrImageN, "")
    ELSE IF q.Model # "dall-e-3" /\ q.Quality # Nil THEN Fail(ErrImageQualityModel, "")
    ELSE IF q.Quality # Nil /\ (q.Quality.val # "standard" /\ q.Quality.val # "hd")
    THEN Fail(ErrImageQuality, "")
    ELSE IF q.Model # "dall-e-3" /\ q.Style # Nil THEN Fail(ErrImageStyleModel, "")
    ELSE IF q.Style # Nil /\ (q.Style.val # "vivid" /\ q.Style.val # "natural")
    THEN Fail(ErrImageStyle, "")
    ELSE IF q.ResponseFormat # Nil
            /\ (q.ResponseFormat.val # "url" /\ q.ResponseFormat.val # "b64_json")
    THEN Fail(ErrImageFormat, "")
    ELSE IF cl.apiKey = "" THEN Fail(ErrApiKey, "")
    ELSE Pass

\* a member for an omitempty pointer field: left out when the pointer is nil
OmitNil(k, p) == IF p = Nil THEN <<>> ELSE <<<<k, p.val>>>>

\* json.Marshal of an OAReqImageGeneratorDallE
MarshalImage(q) ==
    <<<<"prompt", q.Prompt>>, <<"model", q.Model>>>>
    \o OmitNil("n", q.N) \o OmitNil("quality", q.Quality)
    \o OmitNil("response_format", q.ResponseFormat) \o OmitNil("size", q.Size)
    \o OmitNil("style", q.Style) \o OmitNil("user", q.User)

DecodeImage(doc) == [Created |-> doc.created, Data |-> doc.data]

CreateImageFinish(r) ==
    IF r.net # "ok" THEN Fail(ErrSendRequest, r.net)
    ELSE IF r.code # StatusOK THEN Fail(ErrSendRequest, r.status)
    ELSE IF ~r.readOK \/ ~r.json THEN Fail(ErrDecode, "")
    ELSE Result(DecodeImage(r.doc))

(***************************************************************************)
(* Text to speech (OpenAITextToSpeech). Speed is a float64: a number held   *)
(* in hundredths, or NaN.                                                  *)
(***************************************************************************)
Float(h) == [nan |-> FALSE, h |-> h]
NaN == [nan |-> TRUE, h |-> 0]
\* a < b on float64: false when either side is NaN
FloatLess(a, b) == ~a.nan /\ ~b.nan /\ a.h < b.h

ErrTTSModel == "Model must be gpt-3 or davinci"
ErrTTSInput == "Input text must be provided"
ErrTTSVoice == "Voice must be alloy, echo, fable, onyx, nova, or shimmer"
ErrTTSFormat == "ResponseFormat must be mp3, opus, aac, flac, wav, or pcm"
ErrTTSSpeed == "Speed must be between 0.25 and 4.0"
ErrTTSRead == "Failed to read response body3: "

\* the input checks of OpenAITextToSpeech and its API key check, in order; the
\* sixth voice is spelled "shimer" and the response-format test is a conjunction
\* of equalities, as in the source
TextToSpeechCheck(cl, q) ==
    IF q.Model = "" \/ (q.Model # "tts-1" /\ q.Model # "tts-1-hd")
    THEN Fail(ErrTTSModel, "")
    ELSE IF q.Input = "" THEN Fail(ErrTTSInput, "")
    ELSE IF q.Voice # ""
            /\ (q.Voice # "alloy" /\ q.Voice # "echo" /\ q.Voice # "fable"
                /\ q.Voice # "onyx" /\ q.Voice # "nova" /\ q.Voice # "shimer")
    THEN Fail(ErrTTSVoice, "")
    ELSE IF q.ResponseFormat # ""
            /\ (q.ResponseFormat = "mp3" /\ q.ResponseFormat = "opus"
                /\ q.ResponseFormat = "aac" /\ q.ResponseFormat = "flac"
                /\ q.ResponseFormat = "wav" /\ q.ResponseFormat = "pcm")
    THEN Fail(ErrTTSFormat, "")
    ELSE IF q.Speed # Nil
            /\ (FloatLess(q.Speed.val, Float(25)) \/ FloatLess(Float(400), q.Speed.val))
    THEN Fail(ErrTTSSpeed, "")
    ELSE IF cl.apiKey = "" THEN Fail(ErrApiKey, "")
    ELSE Pass

\* json.Marshal refuses a float64 that is NaN (UnsupportedValueError)
MarshalTTSFails(q) == q.Speed # Nil /\ q.Speed.val.nan

\* json.Marshal of an OAReqTextToSpeech
MarshalTTS(q) ==
    <<<<"model", q.Model>>, <<"input", q.Input>>, <<"voice", q.Voice>>,
      <<"response_format", q.ResponseFormat>>>>
    \o OmitNil("speed", q.Speed)

B64Alphabet ==
    <<"A", "B", "C", "D", "E", "F", "G", "H", "I", "J", "K", "L", "M", "N", "O", "P",
      "Q", "R", "S", "T", "U", "V", "W", "X", "Y", "Z", "a", "b", "c", "d", "e", "f",
      "g", "h", "i", "j", "k", "l", "m", "n", "o", "p", "q", "r", "s", "t", "u", "v",
      "w", "x", "y", "z", "0", "1", "2", "3", "4", "5", "6", "7", "8", "9", "+", "/">>
B64Char(n) == B64Alphabet[n + 1]

\* base64.StdEncoding.EncodeToString: three bytes to four characters, "=" padding
RECURSIVE Base64(_)
Base64(bytes) ==
    IF Len(bytes) = 0 THEN ""
    ELSE IF Len(bytes) = 1
    THEN B64Char(bytes[1] \div 4) \o B64Char((bytes[1] % 4) * 16) \o "=="
    ELSE IF Len(bytes) = 2
    THEN B64Char(bytes[1] \div 4)
         \o B64Char((bytes[1] % 4) * 16 + bytes[2] \div 16)
         \o B64Char((bytes[2] % 16) * 4) \o "="
    ELSE B64Char(bytes[1] \div 4)
         \o B64Char((bytes[1] % 4) * 16 + bytes[2] \div 16)
         \o B64Char((bytes[2] % 16) * 4 + bytes[3] \div 64)
         \o B64Char(bytes[3] % 64)
         \o Base64(SubSeq(bytes, 4, Len(bytes)))

\* a mutant: the extension is always ".mp3"
TextToSpeechFinishMp3Only(q, r) ==
    IF r.net # "ok" THEN Fail(ErrSendRequest, r.net)
    ELSE IF r.code # StatusOK THEN Fail(ErrSendRequest, r.status)
    ELSE IF ~r.readOK THEN Fail(ErrTTSRead, "")
    ELSE Result([B64JSON |-> Base64(r.bytes), FormatAudio |-> ".mp3"])

\* OpenAITextToSpeech from the return of client.Do on
TextToSpeechFinish(q, r) ==
    IF r.net # "ok" THEN Fail(ErrSendRequest, r.net)
    ELSE IF r.code # StatusOK THEN Fail(ErrSendRequest, r.status)
    ELSE IF ~r.readOK THEN Fail(ErrTTSRead, "")
    ELSE Result([B64JSON |-> Base64(r.bytes),
                 FormatAudio |-> IF q.ResponseFormat = "" THEN ".mp3"
                                 ELSE "." \o q.ResponseFormat])

(***************************************************************************)
(* Speech to text (sttBaseReq and the four operations over it). A file     *)
(* name is a sequence of tokens: ".", "/" or a string holding neither.     *)
(* Temperature is held in hundredths.                                      *)
(***************************************************************************)
ErrSTTFile == "file must be provided"
ErrSTTTemperature == "temperature must be between 0 and 1"
ErrSTTAccess == "failed to access file content: "
ErrSTTOpen == "failed to open file: "
ErrSTTFilename == "filename must be provided if file is io.Reader"
ErrSTTFileType ==
    "file type not supported, supported type is *multipart.FileHeader, string, or io.Reader"
ErrSTTExt == "your file extension is "
ErrSTTBoth == "cannot use both word timestamps and segment timestamps"
ErrSTTCopy == "failed to copy file content"
ErrSTTSend == "failed to send request"
ErrSTTRead == "failed to read response body"
ErrSTTUnmarshal == "failed to unmarshal response"

RECURSIVE Join(_)
Join(toks) == IF toks = <<>> THEN "" ELSE Head(toks) \o Join(Tail(toks))

\* the index of the last token of toks that is in set, 0 if there is none
LastIndexIn(toks, set) ==
    LET I == {i \in 1..Len(toks) : toks[i] \in set} IN
    IF I = {} THEN 0 ELSE CHOOSE i \in I : \A k \in I : k <= i

\* filepath.Ext: the suffix from the final dot of the final path element on
Ext(toks) ==
    LET i == LastIndexIn(toks, {".", "/"}) IN
    IF i = 0 \/ toks[i] = "/" THEN <<>> ELSE SubSeq(toks, i, Len(toks))

RECURSIVE StripSlashes(_)
StripSlashes(toks) ==
    IF toks # <<>> /\ toks[Len(toks)] = "/"
    THEN StripSlashes(SubSeq(toks, 1, Len(toks) - 1))
    ELSE toks

\* filepath.Base: the last element of the path
Base(toks) ==
    IF toks = <<>> THEN <<".">>
    ELSE LET t == StripSlashes(toks) IN
         IF t = <<>> THEN <<"/">>
         ELSE SubSeq(t, LastIndexIn(t, {"/"}) + 1, Len(t))

validExts ==
    {<<".", "mp3">>, <<".", "mp4">>, <<".", "mpeg">>, <<".", "mpga">>, <<".", "m4a">>,
     <<".", "webm">>, <<".", "wav">>, <<".", "flac">>, <<".", "ogg">>}

\* a mutant: the extension is compared without regard to case
ToLower(tok) == IF tok = "MP3" THEN "mp3" ELSE IF tok = "Wav" THEN "wav" ELSE tok
isValidFolded(fileExt) == [i \in 1..Len(fileExt) |-> ToLower(fileExt[i])] \in validExts

\* the loop over validExts: fileExt == ext for one of them
isValid(fileExt) == fileExt \in validExts

\* a mutant: the two timestamp flags are never refused together
bothStampsAllowed(isWordStampReq, isSegmentStampReq) == FALSE

\* isWordStampReq && isSegmentStampReq
bothStamps(isWordStampReq, isSegmentStampReq) == isWordStampReq /\ isSegmentStampReq

Digit(d) == <<"0", "1", "2", "3", "4", "5", "6", "7", "8", "9">>[d + 1]

\* strconv.FormatFloat(t, 'f', 6, 64) of a temperature of h hundredths, 0 <= h < 1000
FormatFloat(h) ==
    Digit(h \div 100) \o "." \o Digit((h \div 10) % 10) \o Digit(h % 10) \o "0000"

\* a mutant: the temperature field is written whatever its value
sttPartsTemperatureAlways(isWordStampReq, isSegmentStampReq, q, fileName) ==
    <<<<"file", Join(fileName)>>, <<"model", "whisper-1">>,
      <<"temperature", FormatFloat(q.Temperature)>>>>
    \o (IF q.Prompt # "" THEN <<<<"prompt", q.Prompt>>>> ELSE <<>>)
    \o (IF q.Language # "" THEN <<<<"language", q.Language>>>> ELSE <<>>)
    \o (IF isWordStampReq \/ isSegmentStampReq
        THEN <<<<"response_format", "verbose_json">>,
               <<"timestamp_granularities[]",
                 IF isSegmentStampReq THEN "segment" ELSE "word">>>>
        ELSE <<>>)

\* the multipart body written by sttBaseReq, as the sequence of its parts
sttParts(isWordStampReq, isSegmentStampReq, q, fileName) ==
    <<<<"file", Join(fileName)>>, <<"model", "whisper-1">>>>
    \o (IF q.Temperature # 0 THEN <<<<"temperature", FormatFloat(q.Temperature)>>>>
        ELSE <<>>)
    \o (IF q.Prompt # "" THEN <<<<"prompt", q.Prompt>>>> ELSE <<>>)
    \o (IF q.Language # "" THEN <<<<"language", q.Language>>>> ELSE <<>>)
    \o (IF isWordStampReq \/ isSegmentStampReq
        THEN <<<<"response_format", "verbose_json">>,
               <<"timestamp_granularities[]",
                 IF isSegmentStampReq THEN "segment" ELSE "word">>>>
        ELSE <<>>)

\* a mutant: a path is used whole as the file name
sttFileNameWholePath(q) ==
    IF q.File.iface = "header" THEN q.File.name
    ELSE IF q.File.iface = "path" THEN q.File.path
    ELSE q.Filename

\* the file name sttBaseReq takes from req_body.File
sttFileName(q) ==
    IF q.File.iface = "header" THEN q.File.name
    ELSE IF q.File.iface = "path" THEN Base(q.File.path)
    ELSE q.Filename

\* a mutant: the temperature is checked after the file and its extension
sttPrepareFileFirst(isTranscription, isWordStampReq, isSegmentStampReq, q) ==
    LET url == IF isTranscription THEN OAUrlSTTTranscription ELSE OAUrlSTTTranslation
        out(ret, opened, parts) ==
            [ret |-> ret, url |-> url, opened |-> opened, parts |-> parts]
        byEncoder == q.File.iface \in {"header", "path"}
        fileName == sttFileName(q)
    IN
    IF q.File = NilIface THEN out(Fail(ErrSTTFile, ""), FALSE, <<>>)
    ELSE IF q.File.iface = "header" /\ ~q.File.openOK
    THEN out(Fail(ErrSTTAccess, "open failed"), FALSE, <<>>)
    ELSE IF q.File.iface = "path" /\ ~q.File.openOK
    THEN out(Fail(ErrSTTOpen, "open failed"), FALSE, <<>>)
    ELSE IF q.File.iface = "reader" /\ q.Filename = <<>>
    THEN out(Fail(ErrSTTFilename, ""), FALSE, <<>>)
    ELSE IF q.File.iface \notin {"header", "path", "reader"}
    THEN out(Fail(ErrSTTFileType, ""), FALSE, <<>>)
    ELSE IF ~isValid(Ext(fileName))
    THEN out(Fail(ErrSTTExt, Join(Ext(fileName))), byEncoder, <<>>)
    ELSE IF q.Temperature # 0 /\ (q.Temperature < 0 \/ q.Temperature > 100)
    THEN out(Fail(ErrSTTTemperature, ""), byEncoder, <<>>)
    ELSE IF bothStamps(isWordStampReq, isSegmentStampReq)
    THEN out(Fail(ErrSTTBoth, ""), byEncoder, <<>>)
    ELSE IF ~q.File.readOK THEN out(Fail(ErrSTTCopy, ""), byEncoder, <<>>)
    ELSE out(Pass, byEncoder,
             sttParts(isWordStampReq, isSegmentStampReq, q, fileName))

\* sttBaseReq up to w.Close(): the checks, the file the encoder opens and the
\* body it builds. opened says whether v.Open() or os.Open() returned a handle.
sttPrepare(isTranscription, isWordStampReq, isSegmentStampReq, q) ==
    LET url == IF isTranscription THEN OAUrlSTTTranscription ELSE OAUrlSTTTranslation
        out(ret, opened, parts) ==
            [ret |-> ret, url |-> url, opened |-> opened, parts |-> parts]
        byEncoder == q.File.iface \in {"header", "path"}
        fileName == sttFileName(q)
    IN
    IF q.File = NilIface THEN out(Fail(ErrSTTFile, ""), FALSE, <<>>)
    ELSE IF q.Temperature # 0 /\ (q.Temperature < 0 \/ q.Temperature > 100)
    THEN out(Fail(ErrSTTTemperature, ""), FALSE, <<>>)
    ELSE IF q.File.iface = "header" /\ ~q.File.openOK
    THEN out(Fail(ErrSTTAccess, "open failed"), FALSE, <<>>)
    ELSE IF q.File.iface = "path" /\ ~q.File.openOK
    THEN out(Fail(ErrSTTOpen, "open failed"), FALSE, <<>>)
    ELSE IF q.File.iface = "reader" /\ q.Filename = <<>>
    THEN out(Fail(ErrSTTFilename, ""), FALSE, <<>>)
    ELSE IF q.File.iface \notin {"header", "path", "reader"}
    THEN out(Fail(ErrSTTFileType, ""), FALSE, <<>>)
    ELSE IF ~isValid(Ext(fileName))
    THEN out(Fail(ErrSTTExt, Join(Ext(fileName))), byEncoder, <<>>)
    ELSE IF bothStamps(isWordStampReq, isSegmentStampReq)
    THEN out(Fail(ErrSTTBoth, ""), byEncoder, <<>>)
    ELSE IF ~q.File.readOK THEN out(Fail(ErrSTTCopy, ""), byEncoder, <<>>)
    ELSE out(Pass, byEncoder,
             sttParts(isWordStampReq, isSegmentStampReq, q, fileName))

\* sttBaseReq from the return of client.Do on: no look at the status code
sttBaseReqFinish(r) ==
    IF r.net # "ok" THEN Fail(ErrSTTSend, "")
    ELSE IF ~r.readOK THEN Fail(ErrSTTRead, "")
    ELSE Pass

DecodeSTTError(doc) == [Message |-> doc.error.message, Type |-> doc.error.type]
DecodeSTTDefault(doc) == [Text |-> doc.text, Error |-> DecodeSTTError(doc)]
DecodeSTTWord(doc) ==
    [Task |-> doc.task, Text |-> doc.text, Words |-> doc.words,
     Error |-> DecodeSTTError(doc)]
DecodeSTTSegment(doc) ==
    [Task |-> doc.task, Text |-> doc.text, Segments |-> doc.segments,
     Error |-> DecodeSTTError(doc)]

\* OpenAISpeechToTextWordTimestamps after sttBaseReq: unmarshal, then the check
\* of result.Error.Message
SpeechToTextWordTimestampsFinish(r) ==
    LET base == sttBaseReqFinish(r)
        result == DecodeSTTWord(r.doc)
    IN
    IF base.kind # "ok" THEN base
    ELSE IF ~r.json THEN Fail(ErrSTTUnmarshal, "")
    ELSE IF result.Error.Message # "" THEN Fail(result.Error.Message, "")
    ELSE Result(result)

SpeechToTextSegmentTimestampsFinish(r) ==
    LET base == sttBaseReqFinish(r)
        result == DecodeSTTSegment(r.doc)
    IN
    IF base.kind # "ok" THEN base
    ELSE IF ~r.json THEN Fail(ErrSTTUnmarshal, "")
    ELSE IF result.Error.Message # "" THEN Fail(result.Error.Message, "")
    ELSE Result(result)

SpeechToTextDefaultFinish(r) ==
    LET base == sttBaseReqFinish(r)
        result == DecodeSTTDefault(r.doc)
    IN
    IF base.kind # "ok" THEN base
    ELSE IF ~r.json THEN Fail(ErrSTTUnmarshal, "")
    ELSE IF result.Error.Message # "" THEN Fail(result.Error.Message, "")
    ELSE Result(result)

\* a mutant: the error sub-object of the decoded response is not looked at
SpeechToTextTranslationFinishNoErrorCheck(r) ==
    LET base == sttBaseReqFinish(r)
        result == DecodeSTTDefault(r.doc)
    IN
    IF base.kind # "ok" THEN base
    ELSE IF ~r.json THEN Fail(ErrSTTUnmarshal, "")
    ELSE Result(result)

SpeechToTextTranslationFinish(r) ==
    LET base == sttBaseReqFinish(r)
        result == DecodeSTTDefault(r.doc)
    IN
    IF base.kind # "ok" THEN base
    ELSE IF ~r.json THEN Fail(ErrSTTUnmarshal, "")
    ELSE IF result.Error.Message # "" THEN Fail(result.Error.Message, "")
    ELSE Result(result)

\* a mutant: the translation operation hands the caller's language on
TranslationReqKeepLanguage(q) ==
    [File |-> q.File, Filename |-> q.Filename, Temperature |-> q.Temperature,
     Prompt |-> q.Prompt, Language |-> q.Language]

\* the request OpenAISpeechToTextTranslation hands to sttBaseReq
TranslationReq(q) ==
    [File |-> q.File, Filename |-> q.Filename, Temperature |-> q.Temperature,
     Prompt |-> q.Prompt, Language |-> ""]

(***************************************************************************)
(* The operations and what callers hand them.                              *)
(***************************************************************************)
ChatOps == {"OpenAISendMessage", "OpenAIGetFirstContentDataResp"}
STTOps ==
    {"OpenAISpeechToTextDefault", "OpenAISpeechToTextWordTimestamps",
     "OpenAISpeechToTextSegmentTimestamps", "OpenAISpeechToTextTranslation"}
Ops == ChatOps \cup STTOps \cup {"OpenAICreateImageDallE", "OpenAITextToSpeech"}

M1 == [Role |-> "system", Content |-> "be brief"]
M2 == [Role |-> "user", Content |-> "hello"]
Contents == {Nil, Ptr(<<M1, M2>>), Ptr(<<M2, M1>>)}

SchemaNames == {"Weather", "Recipe"}
Schemas == {[type |-> "object"], [type |-> "string"]}
\* format_response: nil, or a pointer to what the caller built with
\* OACreateResponseFormat
Formats ==
    {Nil} \cup {Ptr(OACreateResponseFormat(n, t)) : n \in SchemaNames, t \in Schemas}

\* a response_format a caller may have put into a custom body beforehand
PriorFormat == [type |-> "json_object"]
BodyModel == "o1-custom"
Bodies ==
    {[Messages |-> NilIface, Model |-> BodyModel, Store |-> FALSE,
      ResponseFormat |-> NilMap],
     [Messages |-> Iface(<<>>), Model |-> BodyModel, Store |-> FALSE,
      ResponseFormat |-> NilMap],
     [Messages |-> Iface(<<M2, M1>>), Model |-> BodyModel, Store |-> FALSE,
      ResponseFormat |-> NilMap],
     [Messages |-> Iface(<<M1, M2>>), Model |-> BodyModel, Store |-> TRUE,
      ResponseFormat |-> PriorFormat]}
\* the request body objects of the caller's heap
Objs == {"bodyA", "bodyB"}
GoodBody == CHOOSE b \in Bodies : b.Store

ChatArgs(bodyPtrs) ==
    [content : Contents, with_format_response : BOOLEAN, format_response : Formats,
     with_custom_reqbody : BOOLEAN, req_body_custom : bodyPtrs]

ImageReqs ==
    [Prompt : {"a cat"},
     Model : {"", "dall-e-2", "dall-e-3", "dall-e-1"},
     N : {Nil, Ptr(0), Ptr(1), Ptr(10), Ptr(11)},
     Quality : {Nil, Ptr("hd"), Ptr("ultra")},
     ResponseFormat : {Nil, Ptr("url"), Ptr("png")},
     Size : {Nil},
     Style : {Nil, Ptr("vivid"), Ptr("sketch")},
     User : {Nil}]

TTSReqs ==
    [Model : {"", "tts-1", "tts-1-hd", "gpt-3"},
     Input : {"", "hello"},
     Voice : {"", "alloy", "shimmer", "shimer", "bob"},
     ResponseFormat : {"", "mp3", "wav", "exe"},
     Speed : {Nil, Ptr(Float(24)), Ptr(Float(25)), Ptr(Float(400)), Ptr(Float(401)),
              Ptr(NaN)}]

Files ==
    {NilIface, [iface |-> "bytes"],
     [iface |-> "reader", readOK |-> TRUE],
     [iface |-> "reader", readOK |-> FALSE],
     [iface |-> "header", name |-> <<"talk", ".", "mp3">>, openOK |-> TRUE,
      readOK |-> TRUE],
     [iface |-> "header", name |-> <<"talk", ".", "MP3">>, openOK |-> TRUE,
      readOK |-> TRUE],
     [iface |-> "header", name |-> <<"talk", ".", "mp3">>, openOK |-> FALSE,
      readOK |-> TRUE],
     [iface |-> "path", path |-> <<"in", ".", "d", "/", "a", ".", "wav">>,
      openOK |-> TRUE, readOK |-> TRUE],
     [iface |-> "path", path |-> <<"in", ".", "d", "/", "a", ".", "wav">>,
      openOK |-> TRUE, readOK |-> FALSE],
     [iface |-> "path", path |-> <<"in", ".", "mp3", "/", "notes">>,
      openOK |-> TRUE, readOK |-> TRUE],
     [iface |-> "path", path |-> <<"gone", ".", "ogg">>,
      openOK |-> FALSE, readOK |-> TRUE]}
STTReqs ==
    [File : Files,
     Filename : {<<>>, <<"clip", ".", "txt">>, <<"clip", ".", "Wav">>, <<"clip">>}
                \cup {<<"clip", ".", e>> :
                         e \in {"mp3", "mp4", "mpeg", "mpga", "m4a", "webm", "wav",
                                "flac", "ogg"}},
     Prompt : {"", "names: Ada"},
     Language : {"", "en"},
     Temperature : {0, 50, 100, 150, -10}]

VisionArgs ==
    [media_type : {"", "image/png", "image/jpeg", "image/jpg", "image/gif",
                   "image/webp", "image/bmp", "IMAGE/PNG"},
     using_image_url : BOOLEAN,
     url_or_base64encoding : {"", "https://img.test/cat.png", "iVBORw0KGgo="},
     text_content : {"", "a cat"}]

(***************************************************************************)
(* What the provider, or the network, may answer.                          *)
(***************************************************************************)
EmptyDoc ==
    [id |-> "", choices |-> <<>>, created |-> 0, data |-> <<>>, task |-> "",
     text |-> "", words |-> <<>>, segments |-> <<>>,
     error |-> [message |-> "", type |-> ""]]
Choice(i, text) ==
    [Index |-> i, Message |-> [Role |-> "assistant", Content |-> text],
     FinishReason |-> "stop"]
\* the documents a body may spell: {}, one with the members of every result type,
\* and one with an error member
Docs ==
    {EmptyDoc,
     [EmptyDoc EXCEPT !.id = "chatcmpl-1",
                      !.choices = <<Choice(0, "first"), Choice(1, "second")>>,
                      !.created = 1,
                      !.data = <<[Url |-> "https://img/1", B64JSON |-> ""]>>,
                      !.task = "transcribe", !.text = "hello world",
                      !.words = <<[Word |-> "hello"], [Word |-> "world"]>>,
                      !.segments = <<[Id |-> 0, Text |-> "hello world"]>>],
     [EmptyDoc EXCEPT !.error = [message |-> "Incorrect API key provided",
                                 type |-> "invalid_request_error"]]}

NetError == "dial tcp: i/o timeout"
\* client.Do returned an error
NoResponse ==
    [net |-> NetError, code |-> 0, status |-> "", readOK |-> FALSE, json |-> FALSE,
     bytes |-> <<>>, doc |-> EmptyDoc]
StatusLine(code) == IF code = StatusOK THEN "200 OK" ELSE "401 Unauthorized"
\* client.Do returned a response: its status, and its body as the bytes a read
\* yields (readOK: the read succeeds) and the document they spell (json: they are
\* well-formed JSON)
HTTPResponses ==
    {[net |-> "ok", code |-> code, status |-> StatusLine(code), readOK |-> b.readOK,
      json |-> b.json, bytes |-> b.bytes, doc |-> b.doc] :
        code \in {StatusOK, 401},
        b \in {[readOK |-> FALSE, json |-> FALSE, bytes |-> <<>>, doc |-> EmptyDoc],
               [readOK |-> TRUE, json |-> FALSE, bytes |-> <<77, 97>>, doc |-> EmptyDoc]}
              \cup {[readOK |-> TRUE, json |-> TRUE, bytes |-> <<123, 125, 10, 77>>,
                     doc |-> d] : d \in Docs}}
Responses == {NoResponse} \cup HTTPResponses

(***************************************************************************)
(* A call: the handler's position (pc), the operation and its arguments,   *)
(* the request body it holds between its checks and client.Do (reqBody),   *)
(* the file handle sttBaseReq opened (fh), the HTTP exchanges it started   *)
(* (http), the request of the last one (sent), the answer (resp) and what  *)
(* it returned (ret). given records the custom body as the caller passed   *)
(* it. log is the order in which the call opened and closed the file, ran   *)
(* client.Do, and read and closed the response body.                       *)
(***************************************************************************)
NoReq == [url |-> "", via |-> "", auth |-> "", ctype |-> "", body |-> <<>>]
NoArgs == [none |-> TRUE]
NoBody ==
    [Messages |-> NilIface, Model |-> "", Store |-> FALSE, ResponseFormat |-> NilMap]
IdleCall ==
    [pc |-> "idle", op |-> "none", args |-> NoArgs, reqBody |-> Nil, given |-> NoBody,
     fh |-> "none", http |-> 0, sent |-> NoReq, resp |-> NoResponse, ret |-> NoRet,
     log |-> <<>>]

\* a mutant: the check that fails runs after the exchange
ReturnAfterExchange(call, ret) ==
    [call EXCEPT !.pc = "done", !.ret = ret, !.http = call.http + 1]

\* a return before client.Do: nothing was sent
ReturnEarly(call, ret) == [call EXCEPT !.pc = "done", !.ret = ret]

\* the checks passed and the request body is ready
Prepared(call, reqBody) == [call EXCEPT !.pc = "prepared", !.reqBody = reqBody]

Started(o, a) == [IdleCall EXCEPT !.op = o, !.args = a]

\* a caller enters OpenAISendMessage or OpenAIGetFirstContentDataResp: the checks
\* and, on the custom path, the write of ResponseFormat into the caller's object
InvokeChat(c, o, a) ==
    /\ client.state = "ready"
    /\ calls[c].pc = "idle"
    /\ LET chk == SendMessageCheck(client, a, heap)
           given == IF a.with_custom_reqbody /\ a.req_body_custom # Nil
                    THEN heap[a.req_body_custom.id] ELSE NoBody
           call == [Started(o, a) EXCEPT !.given = given]
       IN
       IF chk.kind = "ok"
       THEN /\ heap' = SendMessageInject(a, heap)
            /\ calls' = [calls EXCEPT ![c] = Prepared(call, SendMessageReqBody(client, a))]
       ELSE /\ heap' = heap
            /\ calls' = [calls EXCEPT ![c] = ReturnEarly(call, chk)]
    /\ UNCHANGED client

InvokeImage(c, q) ==
    /\ client.state = "ready"
    /\ calls[c].pc = "idle"
    /\ LET chk == CreateImageCheck(client, q)
           call == Started("OpenAICreateImageDallE", q)
       IN
       calls' = [calls EXCEPT ![c] =
                    IF chk.kind = "ok" THEN Prepared(call, Ptr(q))
                    ELSE ReturnEarly(call, chk)]
    /\ UNCHANGED <<client, heap>>

InvokeTTS(c, q) ==
    /\ client.state = "ready"
    /\ calls[c].pc = "idle"
    /\ LET chk == TextToSpeechCheck(client, q)
           call == Started("OpenAITextToSpeech", q)
       IN
       calls' = [calls EXCEPT ![c] =
                    IF chk.kind = "ok" THEN Prepared(call, Ptr(q))
                    ELSE ReturnEarly(call, chk)]
    /\ UNCHANGED <<client, heap>>

\* a mutant: sttBaseReq returns without closing the file it opened
DeferredFileCloseNever(opened) == <<>>

\* defer fileContent.(io.Closer).Close() and defer fileContent.(*os.File).Close():
\* what runs on the file when sttBaseReq returns
DeferredFileClose(opened) == IF opened THEN <<"file.Close">> ELSE <<>>

\* v.Open() or os.Open(v) returned a handle
FileOpened(opened) == IF opened THEN <<"file.Open">> ELSE <<>>

\* a mutant: the deferred function closes the body without reading it
DeferredBodyCleanupCloseOnly(r) == <<"body.Close">>

\* the deferred function of OpenAISendMessage, OpenAICreateImageDallE and
\* OpenAITextToSpeech: io.ReadAll on a status other than 200, then Close
DeferredBodyCleanup(r) ==
    (IF r.code # StatusOK THEN <<"body.Drain">> ELSE <<>>) \o <<"body.Close">>

\* what the handler does with the response body from the return of client.Do
\* to its own return; sttBaseReq reads it whatever the status and closes it
\* by defer resp.Body.Close()
BodyEvents(call, r) ==
    IF r.net # "ok" THEN <<>>
    ELSE IF call.op \in ChatOps \cup {"OpenAICreateImageDallE"}
    THEN (IF r.code = StatusOK THEN <<"body.Decode">> ELSE <<>>)
         \o DeferredBodyCleanup(r)
    ELSE IF call.op = "OpenAITextToSpeech"
    THEN (IF r.code = StatusOK THEN <<"body.ReadAll">> ELSE <<>>)
         \o DeferredBodyCleanup(r)
    ELSE <<"body.ReadAll", "body.Close">>

\* the flags each speech-to-text operation hands to sttBaseReq
isTranscription(o) == o # "OpenAISpeechToTextTranslation"
isWordStamp(o) == o = "OpenAISpeechToTextWordTimestamps"
isSegmentStamp(o) == o = "OpenAISpeechToTextSegmentTimestamps"
sttReq(o, q) == IF isTranscription(o) THEN q ELSE TranslationReq(q)

\* a caller enters a speech-to-text operation: sttBaseReq up to w.Close(). A
\* handle the encoder opened is closed by its defer when sttBaseReq returns.
InvokeSTT(c, o, q) ==
    /\ client.state = "ready"
    /\ calls[c].pc = "idle"
    /\ LET prep == sttPrepare(isTranscription(o), isWordStamp(o), isSegmentStamp(o),
                              sttReq(o, q))
           call == Started(o, q)
       IN
       calls' = [calls EXCEPT ![c] =
                    IF prep.ret.kind = "ok"
                    THEN [Prepared(call, Ptr(prep.parts)) EXCEPT
                             !.fh = IF prep.opened THEN "open" ELSE "none",
                             !.log = FileOpened(prep.opened)]
                    ELSE [ReturnEarly(call, prep.ret) EXCEPT
                             !.fh = IF prep.opened THEN "closed" ELSE "none",
                             !.log = FileOpened(prep.opened)
                                     \o DeferredFileClose(prep.opened)]]
    /\ UNCHANGED <<client, heap>>

\* a caller inside the package enters sttBaseReq itself, with flags a of its own
InvokeSttBaseReq(c, a) ==
    /\ client.state = "ready"
    /\ calls[c].pc = "idle"
    /\ LET prep == sttPrepare(a.isTranscription, a.isWordStampReq, a.isSegmentStampReq,
                              a.req_body)
           call == Started("sttBaseReq", a)
       IN
       calls' = [calls EXCEPT ![c] =
                    IF prep.ret.kind = "ok"
                    THEN [Prepared(call, Ptr(prep.parts)) EXCEPT
                             !.fh = IF prep.opened THEN "open" ELSE "none",
                             !.log = FileOpened(prep.opened)]
                    ELSE [ReturnEarly(call, prep.ret) EXCEPT
                             !.fh = IF prep.opened THEN "closed" ELSE "none",
                             !.log = FileOpened(prep.opened)
                                     \o DeferredFileClose(prep.opened)]]
    /\ UNCHANGED <<client, heap>>

\* the request a prepared call hands to client.Do
Request(cl, call, hp) ==
    IF call.op \in ChatOps
    THEN [url |-> cl.config.openAIBaseUrl, via |-> cl.config.httpClient,
          auth |-> "Bearer " \o cl.apiKey, ctype |-> "application/json",
          body |-> MarshalCompletion(Deref(call.reqBody, hp))]
    ELSE IF call.op = "OpenAICreateImageDallE"
    THEN [url |-> OAUrlImageGenerationsDallE, via |-> cl.config.httpClient,
          auth |-> "Bearer " \o cl.apiKey, ctype |-> "application/json",
          body |-> MarshalImage(call.reqBody.val)]
    ELSE IF call.op = "OpenAITextToSpeech"
    THEN [url |-> OAUrlTextToSpeech, via |-> cl.config.httpClient,
          auth |-> "Bearer " \o cl.apiKey, ctype |-> "application/json",
          body |-> MarshalTTS(call.reqBody.val)]
    ELSE [url |-> IF (IF call.op = "sttBaseReq" THEN call.args.isTranscription
                      ELSE isTranscription(call.op))
                  THEN OAUrlSTTTranscription
                  ELSE OAUrlSTTTranslation,
          via |-> ZeroHTTPClient,
          auth |-> "Bearer " \o cl.apiKey, ctype |-> "multipart/form-data",
          body |-> call.reqBody.val]

\* json.Marshal, http.NewRequest and client.Do: the exchange starts unless
\* Marshal refuses the body or the URL does not parse
Send(c) ==
    /\ calls[c].pc = "prepared"
    /\ LET req == Request(client, calls[c], heap) IN
       calls' = [calls EXCEPT ![c] =
                    IF calls[c].op = "OpenAITextToSpeech"
                       /\ MarshalTTSFails(calls[c].reqBody.val)
                    THEN ReturnEarly(calls[c], Fail(ErrMarshal, ""))
                    ELSE IF req.url = BadUrl
                    THEN ReturnEarly(calls[c], Fail(ErrCreateRequest, ""))
                    ELSE [calls[c] EXCEPT !.pc = "inflight", !.sent = req,
                                          !.http = calls[c].http + 1,
                                          !.log = Append(@, "client.Do")]]
    /\ UNCHANGED <<client, heap>>

\* what the operation returns once client.Do has returned r
Finish(call, r) ==
    IF call.op = "OpenAISendMessage" THEN SendMessageFinish(r)
    ELSE IF call.op = "OpenAIGetFirstContentDataResp" THEN GetFirstContentFinish(r)
    ELSE IF call.op = "OpenAICreateImageDallE" THEN CreateImageFinish(r)
    ELSE IF call.op = "OpenAITextToSpeech" THEN TextToSpeechFinish(call.args, r)
    ELSE IF call.op = "sttBaseReq"
    THEN (IF sttBaseReqFinish(r).kind = "ok" THEN Result(r.bytes) ELSE sttBaseReqFinish(r))
    ELSE IF call.op = "OpenAISpeechToTextDefault" THEN SpeechToTextDefaultFinish(r)
    ELSE IF call.op = "OpenAISpeechToTextWordTimestamps"
    THEN SpeechToTextWordTimestampsFinish(r)
    ELSE IF call.op = "OpenAISpeechToTextSegmentTimestamps"
    THEN SpeechToTextSegmentTimestampsFinish(r)
    ELSE SpeechToTextTranslationFinish(r)

\* client.Do returns and the handler runs to its return
Respond(c, answers) ==
    /\ calls[c].pc = "inflight"
    /\ \E r \in answers :
          calls' = [calls EXCEPT ![c] =
                       [calls[c] EXCEPT !.pc = "done", !.resp = r,
                                        !.ret = Finish(calls[c], r),
                                        !.fh = IF calls[c].fh = "open" THEN "closed"
                                               ELSE calls[c].fh,
                                        !.log = @ \o BodyEvents(calls[c], r)
                                                \o DeferredFileClose(calls[c].fh = "open")]]
    /\ UNCHANGED <<client, heap>>

\* the caller takes the outcome; after a panic there is no return
Return(c) ==
    /\ calls[c].pc = "done"
    /\ calls[c].ret.kind # "panic"
    /\ calls' = [calls EXCEPT ![c] = IdleCall]
    /\ UNCHANGED <<client, heap>>

\* a caller composes vision content: the function takes no client
ComposeVision(c, a) ==
    /\ calls[c].pc = "idle"
    /\ calls' = [calls EXCEPT ![c] =
                    ReturnEarly(Started("OACreateOneContentVision", a),
                                OACreateOneContentVision(a.media_type, a.using_image_url,
                                                         a.url_or_base64encoding,
                                                         a.text_content))]
    /\ UNCHANGED <<client, heap>>

\* New(apiKey, "", "", opts...)
New(apiKey, opts) ==
    /\ client.state # "ready"
    /\ client' = NewClient(apiKey, opts)
    /\ UNCHANGED <<calls, heap>>

(***************************************************************************)
(* Spec: one caller, one call at a time, on a client built by New.         *)
(***************************************************************************)
FirstCall == CHOOSE c \in Calls : \A d \in Calls : c <= d

SeqChatArgs == ChatArgs({Nil, Ref("bodyA")})
SeqImageReqs ==
    {q \in ImageReqs :
        /\ q.Model \in {"dall-e-2", "dall-e-3"}
        /\ q.N \in {Nil, Ptr(11)}
        /\ q.Quality \in {Nil, Ptr("hd")}
        /\ q.Style = Nil
        /\ q.ResponseFormat = Nil}
SeqTTSReqs ==
    {q \in TTSReqs :
        /\ q.Model \in {"tts-1", "gpt-3"}
        /\ q.Input = "hello"
        /\ q.Voice \in {"alloy", "shimmer"}
        /\ q.ResponseFormat \in {"", "wav"}
        /\ q.Speed \in {Nil, Ptr(Float(401))}}
SeqSTTReqs ==
    {q \in STTReqs :
        /\ q.Filename \in {<<>>, <<"clip", ".", "flac">>}
        /\ q.Prompt = ""
        /\ q.Language = "en"
        /\ q.Temperature \in {0, 150}}

SeqHeaps == {[o \in Objs |-> IF o = "bodyA" THEN b ELSE GoodBody] : b \in Bodies}

Init ==
    /\ client = NoClient
    /\ calls = [c \in Calls |-> IdleCall]
    /\ heap \in SeqHeaps

Next ==
    \/ \E k \in ApiKeys, opts \in OptLists : New(k, opts)
    \/ \E o \in STTOps, q \in SeqSTTReqs : InvokeSTT(FirstCall, o, q)
    \/ \E o \in ChatOps, a \in SeqChatArgs : InvokeChat(FirstCall, o, a)
    \/ \E q \in SeqImageReqs : InvokeImage(FirstCall, q)
    \/ \E q \in SeqTTSReqs : InvokeTTS(FirstCall, q)
    \/ Send(FirstCall)
    \/ Respond(FirstCall, Responses)
    \/ Return(FirstCall)

Spec == Init /\ [][Next]_vars

(***************************************************************************)
(* SpecLiteral: the client may also be an openaiAPI value written inside   *)
(* the package, whose key no constructor has checked; the caller hands     *)
(* every operation a request its argument checks accept.                   *)
(***************************************************************************)
LitChatArgs ==
    {a \in SeqChatArgs :
        /\ a.content # Nil
        /\ ~a.with_custom_reqbody
        /\ a.req_body_custom = Nil
        /\ a.with_format_response = (a.format_response # Nil)}
LitImageReqs == {q \in SeqImageReqs : q.Model = "dall-e-3" /\ q.N = Nil}
LitTTSReqs == {q \in SeqTTSReqs : q.Model = "tts-1" /\ q.Voice = "alloy" /\ q.Speed = Nil}
LitSTTReqs ==
    {q \in SeqSTTReqs :
        /\ q.Temperature = 0
        /\ q.File.iface \in {"header", "path", "reader"}
        /\ q.File.readOK
        /\ q.File.iface = "reader" => q.Filename # <<>>
        /\ q.File.iface = "header" => (q.File.openOK /\ q.File.name = <<"talk", ".", "mp3">>)
        /\ q.File.iface = "path" =>
               (q.File.openOK /\ q.File.path = <<"in", ".", "d", "/", "a", ".", "wav">>)}

InitLiteral ==
    /\ client \in {NoClient} \cup {LiteralClient(k) : k \in ApiKeys}
    /\ calls = [c \in Calls |-> IdleCall]
    /\ heap \in SeqHeaps

NextLiteral ==
    \/ \E k \in ApiKeys, opts \in OptLists : New(k, opts)
    \/ \E o \in STTOps, q \in LitSTTReqs : InvokeSTT(FirstCall, o, q)
    \/ \E o \in ChatOps, a \in LitChatArgs : InvokeChat(FirstCall, o, a)
    \/ \E q \in LitImageReqs : InvokeImage(FirstCall, q)
    \/ \E q \in LitTTSReqs : InvokeTTS(FirstCall, q)
    \/ Send(FirstCall)
    \/ Respond(FirstCall, Responses)
    \/ Return(FirstCall)

SpecLiteral == InitLiteral /\ [][NextLiteral]_vars

(***************************************************************************)
(* SpecConc: several goroutines inside OpenAISendMessage on one client,    *)
(* each handed one of the caller's request body objects.                   *)
(***************************************************************************)
ConcChatArgs ==
    {a \in ChatArgs({Ref(o) : o \in Objs}) :
        /\ a.content = Nil
        /\ a.with_custom_reqbody
        /\ a.format_response \in
               {Ptr(OACreateResponseFormat("Weather", [type |-> "object"])),
                Ptr(OACreateResponseFormat("Recipe", [type |-> "string"]))}}

ConcResponses ==
    {NoResponse} \cup {r \in HTTPResponses : r.code = StatusOK /\ r.doc.id # ""}

InitConc ==
    /\ client = NewClient("sk-test", <<>>)
    /\ calls = [c \in Calls |-> IdleCall]
    /\ heap = [o \in Objs |-> GoodBody]

NextConc ==
    \E c \in Calls :
        \/ \E a \in ConcChatArgs : InvokeChat(c, "OpenAISendMessage", a)
        \/ Send(c)
        \/ Respond(c, ConcResponses)
        \/ Return(c)

SpecConc == InitConc /\ [][NextConc]_vars

(***************************************************************************)
(* SpecTTS: one caller of OpenAITextToSpeech, with every request of        *)
(* TTSReqs.                                                                *)
(***************************************************************************)
\* no client yet, no call entered, the caller's request bodies well-formed
InitCaller ==
    /\ client = NoClient
    /\ calls = [c \in Calls |-> IdleCall]
    /\ heap = [o \in Objs |-> GoodBody]

NextTTS ==
    \/ \E k \in ApiKeys, opts \in OptLists : New(k, opts)
    \/ \E q \in TTSReqs : InvokeTTS(FirstCall, q)
    \/ Send(FirstCall)
    \/ Respond(FirstCall, Responses)
    \/ Return(FirstCall)

SpecTTS == InitCaller /\ [][NextTTS]_vars

(***************************************************************************)
(* SpecImage: one caller of OpenAICreateImageDallE, with every request of  *)
(* ImageReqs.                                                              *)
(***************************************************************************)
NextImage ==
    \/ \E k \in ApiKeys, opts \in OptLists : New(k, opts)
    \/ \E q \in ImageReqs : InvokeImage(FirstCall, q)
    \/ Send(FirstCall)
    \/ Respond(FirstCall, Responses)
    \/ Return(FirstCall)

SpecImage == InitCaller /\ [][NextImage]_vars

(***************************************************************************)
(* SpecVision: a caller of OACreateOneContentVision, with every argument   *)
(* list of VisionArgs.                                                     *)
(***************************************************************************)
NextVision ==
    \/ \E k \in ApiKeys, opts \in OptLists : New(k, opts)
    \/ \E a \in VisionArgs : ComposeVision(FirstCall, a)
    \/ Return(FirstCall)

SpecVision == InitCaller /\ [][NextVision]_vars

(***************************************************************************)
(* SpecSTT: one caller of the four speech-to-text operations and of        *)
(* sttBaseReq, with the requests of STTReqs that differ in file, file name *)
(* and temperature.                                                        *)
(***************************************************************************)
EncoderReqs ==
    {q \in STTReqs :
        /\ q.Prompt = ""
        /\ q.Language = ""
        /\ q.Temperature \in {0, 100, 150}
        /\ (q.File = NilIface \/ q.File.iface # "reader") => q.Filename = <<>>}
EncoderArgs ==
    [isTranscription : BOOLEAN, isWordStampReq : BOOLEAN, isSegmentStampReq : BOOLEAN,
     req_body : EncoderReqs]

NextSTT ==
    \/ \E k \in ApiKeys, opts \in OptLists : New(k, opts)
    \/ \E o \in STTOps, q \in EncoderReqs : InvokeSTT(FirstCall, o, q)
    \/ \E a \in EncoderArgs : InvokeSttBaseReq(FirstCall, a)
    \/ Send(FirstCall)
    \/ Respond(FirstCall, Responses)
    \/ Return(FirstCall)

SpecSTT == InitCaller /\ [][NextSTT]_vars

(***************************************************************************)
(* SpecMultipart: one caller of the four speech-to-text operations and of  *)
(* sttBaseReq, with readable files and the requests that differ in prompt, *)
(* language and temperature.                                               *)
(***************************************************************************)
MultipartReqs ==
    {q \in STTReqs :
        /\ q.File # NilIface
        /\ q.File.iface \in {"header", "path", "reader"}
        /\ q.File.readOK
        /\ q.File.iface = "header" =>
               (q.File.openOK /\ q.File.name = <<"talk", ".", "mp3">>)
        /\ q.File.iface = "path" =>
               (q.File.openOK /\ q.File.path = <<"in", ".", "d", "/", "a", ".", "wav">>)
        /\ q.Filename \in {<<>>, <<"clip", ".", "flac">>}
        /\ q.Temperature \in {0, 50, 150}}
MultipartArgs ==
    [isTranscription : BOOLEAN, isWordStampReq : BOOLEAN, isSegmentStampReq : BOOLEAN,
     req_body : MultipartReqs]

NextMultipart ==
    \/ \E k \in ApiKeys, opts \in OptLists : New(k, opts)
    \/ \E o \in STTOps, q \in MultipartReqs : InvokeSTT(FirstCall, o, q)
    \/ \E a \in MultipartArgs : InvokeSttBaseReq(FirstCall, a)
    \/ Send(FirstCall)
    \/ Respond(FirstCall, Responses)
    \/ Return(FirstCall)

SpecMultipart == InitCaller /\ [][NextMultipart]_vars

(***************************************************************************)
(* SpecNew: New with no key or one of two keys, then one caller of every   *)
(* operation with requests the argument checks accept.                     *)
(***************************************************************************)
NewKeys == ApiKeys \cup {"sk-other"}

NextNew ==
    \/ \E k \in NewKeys, opts \in OptLists : New(k, opts)
    \/ \E o \in STTOps, q \in LitSTTReqs : InvokeSTT(FirstCall, o, q)
    \/ \E o \in ChatOps, a \in LitChatArgs : InvokeChat(FirstCall, o, a)
    \/ \E q \in LitImageReqs : InvokeImage(FirstCall, q)
    \/ \E q \in LitTTSReqs : InvokeTTS(FirstCall, q)
    \/ Send(FirstCall)
    \/ Respond(FirstCall, Responses)
    \/ Return(FirstCall)

SpecNew == InitCaller /\ [][NextNew]_vars

(***************************************************************************)
(* The claims.                                                             *)
(***************************************************************************)
Entered(c) == calls[c].pc # "idle"
Done(c) == calls[c].pc = "done"
\* client.Do returned a response to call c
Answered(c) == Done(c) /\ calls[c].http > 0 /\ calls[c].resp.net = "ok"
OnCustomPath(c) == calls[c].op \in ChatOps /\ calls[c].args.with_custom_reqbody
OnContentPath(c) == calls[c].op \in ChatOps /\ ~calls[c].args.with_custom_reqbody

\* C1: on a client whose API key is empty every operation returns the
\* authentication error and starts no HTTP exchange.
C1_EmptyKeyIsAuthErrorAndNoRequest ==
    \A c \in Calls :
        client.apiKey = "" =>
            /\ calls[c].http = 0
            /\ Done(c) => calls[c].ret = Fail(ErrApiKey, "")

\* the messages of the argument checks of the eight operations
ValidationErrs ==
    {ErrFormatResponse, ErrReqBodyCustom, ErrContent,
     ErrImageModel, ErrImageN, ErrImageQualityModel, ErrImageQuality,
     ErrImageStyleModel, ErrImageStyle, ErrImageFormat,
     ErrTTSModel, ErrTTSInput, ErrTTSVoice, ErrTTSFormat, ErrTTSSpeed,
     ErrSTTFile, ErrSTTTemperature, ErrSTTFilename, ErrSTTFileType, ErrSTTExt,
     ErrSTTBoth}

\* inputs the documented argument rules reject
RejectedInput(call) ==
    LET a == call.args IN
    IF call.op \in ChatOps
    THEN \/ a.with_format_response /\ a.format_response = Nil
         \/ ~a.with_custom_reqbody /\ a.content = Nil
         \/ /\ a.with_custom_reqbody
            /\ a.req_body_custom # Nil
            /\ call.given.Messages = NilIface
    ELSE IF call.op = "OpenAICreateImageDallE"
    THEN \/ a.Model \notin {"dall-e-2", "dall-e-3"}
         \/ a.N # Nil /\ a.N.val \notin 1..10
         \/ a.Model # "dall-e-3" /\ (a.Quality # Nil \/ a.Style # Nil)
         \/ a.Quality # Nil /\ a.Quality.val \notin {"standard", "hd"}
         \/ a.Style # Nil /\ a.Style.val \notin {"vivid", "natural"}
         \/ a.ResponseFormat # Nil /\ a.ResponseFormat.val \notin {"url", "b64_json"}
    ELSE IF call.op = "OpenAITextToSpeech"
    THEN \/ a.Model \notin {"tts-1", "tts-1-hd"}
         \/ a.Input = ""
         \/ a.Speed # Nil /\ (a.Speed.val.nan \/ a.Speed.val.h \notin 25..400)
    ELSE IF call.op \in STTOps
    THEN \/ a.File = NilIface
         \/ a.Temperature \notin 0..100
         \/ a.File.iface = "bytes"
         \/ a.File.iface = "reader" /\ a.Filename = <<>>
    ELSE FALSE

\* C2: a call that an argument check rejects has started no HTTP exchange, and
\* no call whose input the argument rules reject ever starts one.
C2_RejectedBeforeAnyExchange ==
    \A c \in Calls :
        /\ (calls[c].ret.kind = "error" /\ calls[c].ret.msg \in ValidationErrs) =>
               (calls[c].http = 0 /\ calls[c].sent = NoReq)
        /\ (Entered(c) /\ RejectedInput(calls[c])) => calls[c].http = 0

C2_Witness ==
    \E c \in Calls :
        /\ Done(c)
        /\ calls[c].op = "OpenAICreateImageDallE"
        /\ calls[c].args.N = Ptr(11)
        /\ calls[c].ret = Fail(ErrImageN, "")
        /\ calls[c].http = 0

\* C3: in the four speech-to-text operations, a decoded response whose error
\* message is non-empty makes the call return that message as its error and no
\* result; with an empty message the call returns the decoded result.
C3_InBandErrorIsReturned ==
    \A c \in Calls :
        (calls[c].op \in STTOps /\ Answered(c) /\ calls[c].resp.readOK
         /\ calls[c].resp.json) =>
            LET doc == calls[c].resp.doc IN
            IF doc.error.message # ""
            THEN calls[c].ret = Fail(doc.error.message, "")
            ELSE /\ calls[c].ret.kind = "result"
                 /\ calls[c].ret.val.Text = doc.text
                 /\ calls[c].ret.val.Error.Message = ""

C3_Witness ==
    \E c \in Calls :
        /\ calls[c].op = "OpenAISpeechToTextTranslation"
        /\ Answered(c)
        /\ calls[c].resp.code = StatusOK
        /\ calls[c].resp.json
        /\ calls[c].resp.doc.error.message = "Incorrect API key provided"
        /\ calls[c].ret = Fail("Incorrect API key provided", "")

\* C4: in every operation an answer with a status other than 200 makes the call
\* return the transport error that carries the status line, and no result.
C4_NonSuccessStatusIsTransportError ==
    \A c \in Calls :
        (Answered(c) /\ calls[c].resp.code # StatusOK) =>
            calls[c].ret = Fail(ErrSendRequest, calls[c].resp.status)

\* C5: a call starts at most one HTTP exchange, exactly one once its checks passed
\* and its request was built, and ends with exactly one outcome, a result or an
\* error.
C5_OneExchangeOneOutcome ==
    \A c \in Calls :
        /\ calls[c].http <= 1
        /\ calls[c].pc = "inflight" => calls[c].http = 1
        /\ (Done(c) /\ calls[c].sent # NoReq) => calls[c].http = 1
        /\ Done(c) => calls[c].ret.kind \in {"result", "error"}

\* the custom body a call was handed, with the call's own envelope in it
OwnBody(call) ==
    [call.given EXCEPT
        !.ResponseFormat = IF call.args.with_format_response
                           THEN call.args.format_response.val ELSE @]

\* C6: the body a chat-completion call sends is the serialisation of its own
\* inputs, whatever other calls are in flight on the same client.
C6_SentBodyIsOwnInputs ==
    \A c \in Calls :
        (OnCustomPath(c) /\ calls[c].http > 0) =>
            calls[c].sent.body = MarshalCompletion(OwnBody(calls[c]))

MissingArgumentErrs == {ErrFormatResponse, ErrReqBodyCustom, ErrContent}

\* C7: on the custom-body path a call whose custom body is nil, or whose message
\* list is nil or has no element, returns a missing-argument error and sends
\* nothing.
C7_EmptyCustomMessagesRejected ==
    \A c \in Calls :
        (/\ Entered(c)
         /\ OnCustomPath(c)
         /\ \/ calls[c].args.req_body_custom = Nil
            \/ calls[c].given.Messages = NilIface
            \/ calls[c].given.Messages = Iface(<<>>)) =>
            /\ Done(c)
            /\ calls[c].ret.kind = "error"
            /\ calls[c].ret.msg \in MissingArgumentErrs
            /\ calls[c].http = 0

\* C8: a chat call with with_format_response set and no format_response, on
\* either path, or on the content path with no content, returns the
\* missing-argument error of that check and sends nothing.
C8_MissingFormatOrContentRejected ==
    \A c \in Calls :
        (Entered(c) /\ calls[c].op \in ChatOps) =>
            LET a == calls[c].args
                noFormat == a.with_format_response /\ a.format_response = Nil
                noContent == ~a.with_custom_reqbody /\ a.content = Nil
            IN
            (noFormat \/ noContent) =>
                /\ Done(c)
                /\ calls[c].ret =
                       Fail(IF noFormat THEN ErrFormatResponse ELSE ErrContent, "")
                /\ calls[c].http = 0
                /\ calls[c].sent = NoReq

C8_Witness ==
    \E c \in Calls :
        /\ Done(c)
        /\ calls[c].op = "OpenAISendMessage"
        /\ calls[c].args.with_format_response
        /\ calls[c].args.format_response = Nil
        /\ calls[c].args.with_custom_reqbody
        /\ calls[c].args.req_body_custom = Nil
        /\ calls[c].ret = Fail(ErrFormatResponse, "")

\* C9: OACreateResponseFormat(name, schema) is {type: "json_schema", json_schema:
\* {name, schema}}, and a content-path call with that envelope sends a body whose
\* response_format is that envelope, whose model is the configured model and whose
\* messages are the content in its order.
C9_ContentPathBodyCarriesEnvelope ==
    \A c \in Calls :
        (OnContentPath(c) /\ calls[c].http > 0 /\ calls[c].args.with_format_response) =>
            LET a == calls[c].args
                b == calls[c].sent.body
                ms == a.content.val
            IN
            /\ \A n \in SchemaNames, t \in Schemas :
                   a.format_response = Ptr(OACreateResponseFormat(n, t)) =>
                       /\ HasField(b, "response_format")
                       /\ JField(b, "response_format") =
                              [type |-> "json_schema",
                               json_schema |-> [name |-> n, schema |-> t]]
            /\ HasField(b, "model")
            /\ JField(b, "model") = client.config.openAIModel
            /\ HasField(b, "messages")
            /\ JField(b, "messages") =
                   JArray([i \in 1..Len(ms) |->
                              <<<<"role", ms[i].Role>>, <<"content", ms[i].Content>>>>])

C9_Witness ==
    \E c \in Calls :
        /\ calls[c].pc = "inflight"
        /\ calls[c].op = "OpenAISendMessage"
        /\ ~calls[c].args.with_custom_reqbody
        /\ calls[c].args.content = Ptr(<<M2, M1>>)
        /\ calls[c].args.format_response =
               Ptr(OACreateResponseFormat("Recipe", [type |-> "string"]))
        /\ client.config.openAIModel = CallerModel
        /\ HasField(calls[c].sent.body, "response_format")

\* the value of the response_format member of a sent body, nil when it is left out
SentFormat(b) == IF HasField(b, "response_format") THEN JField(b, "response_format")
                 ELSE NilMap

\* C10: on the custom-body path the sent response_format is the supplied envelope
\* when with_format_response is set, and otherwise the one the custom body held;
\* messages, store and model are those of the custom body, never the configured
\* model.
C10_CustomBodyFrame ==
    \A c \in Calls :
        (OnCustomPath(c) /\ calls[c].http > 0) =>
            LET a == calls[c].args
                b == calls[c].sent.body
                g == calls[c].given
            IN
            /\ SentFormat(b) = IF a.with_format_response THEN a.format_response.val
                               ELSE g.ResponseFormat
            /\ JField(b, "model") = g.Model
            /\ JField(b, "model") # client.config.openAIModel
            /\ JField(b, "messages") = MarshalMessages(g.Messages)
            /\ HasField(b, "store") = g.Store

\* C11: OpenAIGetFirstContentDataResp, once the exchange of its send is over,
\* returns the send's error unchanged when the send failed, and otherwise a
\* result, which is the message of the first choice of the decoded response; it
\* never ends without a result or an error.
C11_FirstChoiceOrError ==
    \A c \in Calls :
        (calls[c].op = "OpenAIGetFirstContentDataResp" /\ Done(c) /\ calls[c].http > 0) =>
            LET sent == SendMessageFinish(calls[c].resp) IN
            IF sent.kind = "error" THEN calls[c].ret = sent
            ELSE /\ calls[c].ret.kind = "result"
                 /\ Len(calls[c].resp.doc.choices) > 0 =>
                        calls[c].ret.val = calls[c].resp.doc.choices[1].Message

\* the voices and response formats the documentation of OpenAITextToSpeech lists
DocumentedVoices == {"alloy", "echo", "fable", "onyx", "nova", "shimmer"}
DocumentedFormats == {"mp3", "opus", "aac", "flac", "wav", "pcm"}
\* a text-to-speech call whose model and input pass their checks
TTSPastInput(c) ==
    /\ calls[c].op = "OpenAITextToSpeech"
    /\ calls[c].args.Model \in {"tts-1", "tts-1-hd"}
    /\ calls[c].args.Input # ""
\* ... and whose voice is one that passes under any reading of the voice rule
TTSPastVoice(c) ==
    TTSPastInput(c) /\ calls[c].args.Voice \in {""} \cup (DocumentedVoices \ {"shimmer"})
TTSPastFormat(c) ==
    TTSPastVoice(c) /\ calls[c].args.ResponseFormat \in {""} \cup DocumentedFormats

\* C12: a text-to-speech call whose model and input are valid is rejected by the
\* voice check exactly when its voice is non-empty and not one of the six
\* documented voices, and a rejected call has sent nothing.
C12_VoiceAcceptedIffDocumented ==
    \A c \in Calls :
        TTSPastInput(c) =>
            IF calls[c].args.Voice \in {""} \cup DocumentedVoices
            THEN calls[c].ret # Fail(ErrTTSVoice, "")
            ELSE Done(c) /\ calls[c].ret = Fail(ErrTTSVoice, "") /\ calls[c].http = 0

\* C13: a text-to-speech call that passed the model, input and voice checks is
\* rejected by the response-format check, with nothing sent, when its response
\* format is non-empty and not one of the six documented formats, and passes the
\* check otherwise.
C13_UnknownFormatRejected ==
    \A c \in Calls :
        TTSPastVoice(c) =>
            IF calls[c].args.ResponseFormat \in {""} \cup DocumentedFormats
            THEN calls[c].ret # Fail(ErrTTSFormat, "")
            ELSE Done(c) /\ calls[c].ret = Fail(ErrTTSFormat, "") /\ calls[c].http = 0

\* 0.25 <= s <= 4.0 on float64
SpeedInRange(s) == ~s.nan /\ 25 <= s.h /\ s.h <= 400

\* C14: a text-to-speech call that passed the earlier checks passes the speed
\* check when the speed is absent, and with a speed s passes it exactly when
\* 0.25 <= s <= 4.0; otherwise it fails with the speed error and sends nothing.
C14_SpeedBoundsInclusive ==
    \A c \in Calls :
        TTSPastFormat(c) =>
            IF calls[c].args.Speed = Nil \/ SpeedInRange(calls[c].args.Speed.val)
            THEN calls[c].ret # Fail(ErrTTSSpeed, "")
            ELSE Done(c) /\ calls[c].ret = Fail(ErrTTSSpeed, "") /\ calls[c].http = 0

\* C15: a text-to-speech call answered with status 200 and a readable body returns
\* the base64 encoding of the whole body and the extension "." + response format
\* (".mp3" when the format is empty); a request is sent only with model tts-1 or
\* tts-1-hd and a non-empty input.
C15_AudioResultIsBase64AndExtension ==
    \A c \in Calls :
        calls[c].op = "OpenAITextToSpeech" =>
            /\ calls[c].http > 0 =>
                   (calls[c].args.Model \in {"tts-1", "tts-1-hd"} /\ calls[c].args.Input # "")
            /\ (Answered(c) /\ calls[c].resp.code = StatusOK /\ calls[c].resp.readOK) =>
                   LET rf == calls[c].args.ResponseFormat
                       bytes == calls[c].resp.bytes
                   IN
                   /\ calls[c].ret.kind = "result"
                   /\ calls[c].ret.val.B64JSON = Base64(bytes)
                   /\ bytes = <<77, 97>> => calls[c].ret.val.B64JSON = "TWE="
                   /\ bytes = <<123, 125, 10, 77>> =>
                          calls[c].ret.val.B64JSON = "e30KTQ=="
                   /\ calls[c].ret.val.FormatAudio =
                          (IF rf = "" THEN ".mp3" ELSE "." \o rf)

C15_Witness ==
    \E c \in Calls :
        /\ calls[c].op = "OpenAITextToSpeech"
        /\ Answered(c)
        /\ calls[c].resp.code = StatusOK
        /\ calls[c].args.ResponseFormat = "wav"
        /\ calls[c].resp.bytes = <<123, 125, 10, 77>>
        /\ calls[c].ret = Result([B64JSON |-> "e30KTQ==", FormatAudio |-> ".wav"])

ImageQualityStyleErrs ==
    {ErrImageQualityModel, ErrImageQuality, ErrImageStyleModel, ErrImageStyle}

\* C16: an image request that sets quality or style with a model other than
\* dall-e-3 is rejected and nothing is sent; a dall-e-3 request whose quality, if
\* set, is standard or hd and whose style, if set, is vivid or natural is not
\* rejected by a quality or style check.
C16_QualityStyleOnlyWithDallE3 ==
    \A c \in Calls :
        (calls[c].op = "OpenAICreateImageDallE" /\ Entered(c)) =>
            LET q == calls[c].args IN
            /\ (q.Model # "dall-e-3" /\ (q.Quality # Nil \/ q.Style # Nil)) =>
                   (Done(c) /\ calls[c].ret.kind = "error" /\ calls[c].http = 0)
            /\ (/\ q.Model = "dall-e-2"
                /\ q.N = Nil \/ q.N.val \in 1..10
                /\ q.Quality # Nil \/ q.Style # Nil) =>
                   calls[c].ret.msg \in {ErrImageQualityModel, ErrImageStyleModel}
            /\ (/\ q.Model = "dall-e-3"
                /\ q.Quality \in {Nil, Ptr("standard"), Ptr("hd")}
                /\ q.Style \in {Nil, Ptr("vivid"), Ptr("natural")}) =>
                   calls[c].ret.msg \notin ImageQualityStyleErrs

C16_Witness ==
    \E c \in Calls :
        /\ Done(c)
        /\ calls[c].op = "OpenAICreateImageDallE"
        /\ calls[c].args.Model = "dall-e-2"
        /\ calls[c].args.Quality = Nil
        /\ calls[c].args.Style = Ptr("vivid")
        /\ calls[c].ret = Fail(ErrImageStyleModel, "")
        /\ calls[c].http = 0

\* the first check of the documented order that a request fails
ImageFirstFailing(q) ==
    IF q.Model \notin {"dall-e-2", "dall-e-3"} THEN "model"
    ELSE IF q.N # Nil /\ q.N.val \notin 1..10 THEN "count"
    ELSE IF q.Model # "dall-e-3" /\ (q.Quality # Nil \/ q.Style # Nil) THEN "advanced"
    ELSE IF \/ q.Quality # Nil /\ q.Quality.val \notin {"standard", "hd"}
            \/ q.Style # Nil /\ q.Style.val \notin {"vivid", "natural"}
    THEN "value"
    ELSE IF q.ResponseFormat # Nil /\ q.ResponseFormat.val \notin {"url", "b64_json"}
    THEN "format"
    ELSE "none"

\* the errors of each documented check
ImageCheckErrs(k) ==
    IF k = "model" THEN {ErrImageModel}
    ELSE IF k = "count" THEN {ErrImageN}
    ELSE IF k = "advanced" THEN {ErrImageQualityModel, ErrImageStyleModel}
    ELSE IF k = "value" THEN {ErrImageQuality, ErrImageStyle}
    ELSE IF k = "format" THEN {ErrImageFormat}
    ELSE {}

\* C17: an image call returns the error of the first check of the documented
\* order (model, count, quality/style only with dall-e-3, quality and style
\* values, response format) that its request fails, and sends a request only
\* when the request fails none.
C17_FirstFailingCheckWins ==
    \A c \in Calls :
        (calls[c].op = "OpenAICreateImageDallE" /\ Entered(c)) =>
            LET k == ImageFirstFailing(calls[c].args) IN
            IF k = "none"
            THEN calls[c].ret.msg \notin
                     {ErrImageModel, ErrImageN, ErrImageFormat} \cup ImageQualityStyleErrs
            ELSE /\ Done(c)
                 /\ calls[c].ret.kind = "error"
                 /\ calls[c].ret.msg \in ImageCheckErrs(k)
                 /\ calls[c].http = 0
                 /\ calls[c].sent = NoReq

C17_Witness ==
    \E c \in Calls :
        /\ Done(c)
        /\ calls[c].op = "OpenAICreateImageDallE"
        /\ calls[c].args.Model = "dall-e-2"
        /\ calls[c].args.N = Ptr(1)
        /\ calls[c].args.Quality = Ptr("ultra")
        /\ calls[c].args.Style = Ptr("sketch")
        /\ calls[c].args.ResponseFormat = Ptr("png")
        /\ calls[c].ret = Fail(ErrImageQualityModel, "")

VisionMediaTypes == {"image/png", "image/jpeg", "image/jpg", "image/gif", "image/webp"}

\* C18: OACreateOneContentVision fails exactly when the payload is empty, or the
\* payload is not a URL and the media type is not one of the five image types;
\* otherwise it returns one image block, whose url is the payload when it is a
\* URL and "data:" + media type + ";base64," + payload when it is not, followed
\* by one text block with the caption exactly when the caption is not empty.
C18_VisionContentReference ==
    \A c \in Calls :
        (calls[c].op = "OACreateOneContentVision" /\ Done(c)) =>
            LET a == calls[c].args
                r == calls[c].ret
            IN
            IF \/ a.url_or_base64encoding = ""
               \/ ~a.using_image_url /\ a.media_type \notin VisionMediaTypes
            THEN r.kind = "error"
            ELSE /\ r.kind = "result"
                 /\ Len(r.val) = (IF a.text_content = "" THEN 1 ELSE 2)
                 /\ r.val[1].Type = "image_url"
                 /\ r.val[1].Text = Nil
                 /\ r.val[1].ImageUrl # Nil
                 /\ r.val[1].ImageUrl.val.Url =
                        (IF a.using_image_url THEN a.url_or_base64encoding
                         ELSE "data:" \o a.media_type \o ";base64,"
                              \o a.url_or_base64encoding)
                 /\ a.text_content # "" =>
                        /\ r.val[2].Type = "text"
                        /\ r.val[2].Text = Ptr(a.text_content)
                        /\ r.val[2].ImageUrl = Nil

C18_Witness ==
    \E c \in Calls :
        /\ Done(c)
        /\ calls[c].op = "OACreateOneContentVision"
        /\ calls[c].args.media_type = "image/webp"
        /\ ~calls[c].args.using_image_url
        /\ calls[c].ret.kind = "result"
        /\ Len(calls[c].ret.val) = 2
        /\ calls[c].ret.val[1].ImageUrl.val.Url = "data:image/webp;base64,iVBORw0KGgo="
        /\ calls[c].ret.val[2].Text = Ptr("a cat")

\* the request a speech-to-text call hands to the encoder, and its two flags
EncoderReq(call) == IF call.op = "sttBaseReq" THEN call.args.req_body ELSE call.args
WordFlag(call) ==
    IF call.op = "sttBaseReq" THEN call.args.isWordStampReq ELSE isWordStamp(call.op)
SegmentFlag(call) ==
    IF call.op = "sttBaseReq" THEN call.args.isSegmentStampReq ELSE isSegmentStamp(call.op)
OnEncoder(c) == calls[c].op \in STTOps \cup {"sttBaseReq"} /\ Entered(c)

\* the file, its name and the temperature are acceptable up to the extension
FileResolved(q) ==
    /\ q.File # NilIface
    /\ q.Temperature \in 0..100
    /\ q.File.iface \in {"header", "path", "reader"}
    /\ IF q.File.iface = "reader" THEN q.Filename # <<>> ELSE q.File.openOK

\* the last dot-suffix of a file name, empty when the name has no dot
LastDotSuffix(toks) ==
    LET I == {i \in 1..Len(toks) : toks[i] = "."} IN
    IF I = {} THEN ""
    ELSE Join(SubSeq(toks, CHOOSE i \in I : \A k \in I : k <= i, Len(toks)))
AcceptedExts == {".mp3", ".mp4", ".mpeg", ".mpga", ".m4a", ".webm", ".wav", ".flac", ".ogg"}
ExtAccepted(q) == FileResolved(q) /\ LastDotSuffix(sttFileName(q)) \in AcceptedExts

\* C19: an encoder call with both timestamp flags set, whose file, extension and
\* temperature are valid, fails with the both-flags error and sends nothing.
C19_BothTimestampFlagsRejected ==
    \A c \in Calls :
        (/\ OnEncoder(c)
         /\ WordFlag(calls[c]) /\ SegmentFlag(calls[c])
         /\ ExtAccepted(EncoderReq(calls[c]))) =>
            /\ Done(c)
            /\ calls[c].ret = Fail(ErrSTTBoth, "")
            /\ calls[c].http = 0
            /\ calls[c].sent = NoReq

C19_Witness ==
    \E c \in Calls :
        /\ Done(c)
        /\ calls[c].op = "sttBaseReq"
        /\ calls[c].args.isWordStampReq
        /\ calls[c].args.isSegmentStampReq
        /\ calls[c].args.req_body.File.iface = "reader"
        /\ calls[c].args.req_body.Filename = <<"clip", ".", "ogg">>
        /\ calls[c].args.req_body.Temperature = 100
        /\ calls[c].ret = Fail(ErrSTTBoth, "")

\* C20: an encoder call whose file resolved to a name passes the extension check
\* exactly when the last dot-suffix of the name is one of the nine accepted
\* extensions, compared exactly; otherwise it fails with the extension error and
\* sends nothing.
C20_ExtensionExactMatch ==
    \A c \in Calls :
        (OnEncoder(c) /\ FileResolved(EncoderReq(calls[c]))) =>
            IF ExtAccepted(EncoderReq(calls[c]))
            THEN calls[c].ret.msg # ErrSTTExt
            ELSE /\ Done(c)
                 /\ calls[c].ret =
                        Fail(ErrSTTExt, LastDotSuffix(sttFileName(EncoderReq(calls[c]))))
                 /\ calls[c].http = 0

C20_Witness ==
    \E c \in Calls :
        /\ Done(c)
        /\ calls[c].op = "OpenAISpeechToTextDefault"
        /\ calls[c].args.File.iface = "header"
        /\ calls[c].args.File.name = <<"talk", ".", "MP3">>
        /\ calls[c].ret = Fail(ErrSTTExt, ".MP3")
        /\ calls[c].http = 0

\* the multipart body a speech-to-text call built, once sttBaseReq has closed
\* the form writer
FormBuilt(c) == OnEncoder(c) /\ (calls[c].pc = "prepared" \/ calls[c].http > 0)
FormOf(call) == IF call.http > 0 THEN call.sent.body ELSE call.reqBody.val
\* what the encoder was handed: the translation operation passes no language
EncoderInput(call) ==
    IF call.op = "sttBaseReq" THEN call.args.req_body ELSE sttReq(call.op, call.args)
PartOrder ==
    <<"file", "model", "temperature", "prompt", "language", "response_format",
      "timestamp_granularities[]">>
PartRank(name) == CHOOSE i \in 1..Len(PartOrder) : PartOrder[i] = name
PartsInOrder(parts) ==
    /\ \A i \in 1..Len(parts) : \E k \in 1..Len(PartOrder) : PartOrder[k] = parts[i][1]
    /\ \A i, j \in 1..Len(parts) :
           i < j => PartRank(parts[i][1]) < PartRank(parts[j][1])
PartValues(parts, name) == {parts[i][2] : i \in {k \in 1..Len(parts) : parts[k][1] = name}}
HasPart(parts, name) == PartValues(parts, name) # {}
OneTimestampMode(call) == WordFlag(call) # SegmentFlag(call)

\* C21: every multipart body the encoder builds has its parts in the order file,
\* model, temperature, prompt, language, response_format,
\* timestamp_granularities; file and model are always there and model is
\* "whisper-1"; temperature is there iff non-zero, prompt and language iff
\* non-empty; response_format and timestamp_granularities are there iff exactly
\* one timestamp mode is requested, as "verbose_json" and the one granularity
\* of that mode.
C21_MultipartPartsOrderAndPresence ==
    \A c \in Calls :
        FormBuilt(c) =>
            LET parts == FormOf(calls[c])
                q == EncoderInput(calls[c])
            IN
            /\ PartsInOrder(parts)
            /\ HasPart(parts, "file")
            /\ PartValues(parts, "model") = {"whisper-1"}
            /\ HasPart(parts, "temperature") <=> q.Temperature # 0
            /\ PartValues(parts, "prompt") = {q.Prompt} \ {""}
            /\ PartValues(parts, "language") = {q.Language} \ {""}
            /\ HasPart(parts, "response_format") <=> OneTimestampMode(calls[c])
            /\ HasPart(parts, "timestamp_granularities[]") <=> OneTimestampMode(calls[c])
            /\ OneTimestampMode(calls[c]) =>
                   /\ PartValues(parts, "response_format") = {"verbose_json"}
                   /\ PartValues(parts, "timestamp_granularities[]") =
                          {IF WordFlag(calls[c]) THEN "word" ELSE "segment"}

C21_Witness ==
    \E c \in Calls :
        /\ calls[c].op = "OpenAISpeechToTextWordTimestamps"
        /\ calls[c].pc = "inflight"
        /\ calls[c].args.Temperature = 50
        /\ calls[c].sent.body =
               <<<<"file", "talk.mp3">>, <<"model", "whisper-1">>,
                 <<"temperature", "0.500000">>, <<"prompt", "names: Ada">>,
                 <<"language", "en">>, <<"response_format", "verbose_json">>,
                 <<"timestamp_granularities[]", "word">>>>

TranscriptionOps == STTOps \ {"OpenAISpeechToTextTranslation"}

\* C22: OpenAISpeechToTextTranslation always sends to the translation endpoint
\* and its body never has a language, response_format or
\* timestamp_granularities part, whatever the caller supplies; the three
\* transcription operations always send to the transcription endpoint.
C22_TranslationEndpointAndDroppedFields ==
    \A c \in Calls :
        calls[c].http > 0 =>
            /\ calls[c].op = "OpenAISpeechToTextTranslation" =>
                   /\ calls[c].sent.url = OAUrlSTTTranslation
                   /\ ~HasPart(calls[c].sent.body, "language")
                   /\ ~HasPart(calls[c].sent.body, "response_format")
                   /\ ~HasPart(calls[c].sent.body, "timestamp_granularities[]")
            /\ calls[c].op \in TranscriptionOps =>
                   calls[c].sent.url = OAUrlSTTTranscription

C22_Witness ==
    \E c \in Calls :
        /\ calls[c].op = "OpenAISpeechToTextTranslation"
        /\ calls[c].pc = "inflight"
        /\ calls[c].args.Language = "en"
        /\ calls[c].args.Prompt = "names: Ada"
        /\ client.config.openAIBaseUrl = CallerUrl
        /\ calls[c].sent.url = OAUrlSTTTranslation
        /\ calls[c].sent.body =
               <<<<"file", "a.wav">>, <<"model", "whisper-1">>,
                 <<"prompt", "names: Ada">>>>

\* how often, and where first, an event stands in a call's log
Count(log, e) == Cardinality({i \in 1..Len(log) : log[i] = e})
First(log, e) == CHOOSE i \in 1..Len(log) : log[i] = e /\ \A k \in 1..(i - 1) : log[k] # e
\* the encoder is handed a header or a path and gets as far as opening it
EncoderOpens(q) ==
    /\ q.File # NilIface
    /\ q.Temperature \in 0..100
    /\ q.File.iface \in {"header", "path"}
    /\ q.File.openOK

\* C23: a file handle the encoder opened (from a header or a path) is closed
\* exactly once before the call returns, on every exit path: invalid extension,
\* both flags, multipart write failure, transport failure, read failure, success.
C23_OpenedHandleClosedOnce ==
    \A c \in Calls :
        OnEncoder(c) =>
            LET log == calls[c].log IN
            /\ Count(log, "file.Open") = (IF EncoderOpens(EncoderInput(calls[c])) THEN 1 ELSE 0)
            /\ Count(log, "file.Close") <= Count(log, "file.Open")
            /\ Count(log, "file.Close") = 1 => First(log, "file.Open") < First(log, "file.Close")
            /\ Done(c) => Count(log, "file.Close") = Count(log, "file.Open")

C23_Witness ==
    \E c \in Calls :
        /\ Done(c)
        /\ calls[c].op = "OpenAISpeechToTextSegmentTimestamps"
        /\ calls[c].args.File.iface = "path"
        /\ calls[c].ret = Fail(ErrSTTSend, "")
        /\ calls[c].log = <<"file.Open", "client.Do", "file.Close">>

\* C24: every operation, the speech-to-text and translation operations
\* included, performs its HTTP exchange through the client's configured HTTP
\* client: the default one with the 60 s timeout, or the one WithHTTPClient set.
C24_ExchangeThroughConfiguredClient ==
    \A c \in Calls :
        calls[c].http > 0 =>
            /\ calls[c].sent.via = client.config.httpClient
            /\ calls[c].sent.via \in {DefaultHTTPClient, CallerHTTPClient}

\* the path of each operation kind under the common base URL
EndpointSuffix(call) ==
    IF call.op \in ChatOps THEN "/chat/completions"
    ELSE IF call.op = "OpenAICreateImageDallE" THEN "/images/generations"
    ELSE IF call.op = "OpenAITextToSpeech" THEN "/audio/speech"
    ELSE IF call.op \in TranscriptionOps THEN "/audio/transcriptions"
    ELSE "/audio/translations"

\* C25: each operation kind sends to its own endpoint, a suffix of the one
\* common base URL, and a base URL set with WithBaseUrl (one that parses)
\* changes the target of every operation kind, not only of chat completion.
C25_BaseUrlOverrideReachesEveryKind ==
    \A c \in Calls :
        (calls[c].http > 0 /\ calls[c].op # "sttBaseReq") =>
            IF client.config.openAIBaseUrl = DefaultConfig.openAIBaseUrl
            THEN calls[c].sent.url = OAUrlBase \o EndpointSuffix(calls[c])
            ELSE client.config.openAIBaseUrl = CallerUrl =>
                     calls[c].sent.url # OAUrlBase \o EndpointSuffix(calls[c])

\* C26: New returns an error and no client for an empty key, and otherwise a
\* client holding exactly the given key; a client obtained from New has a
\* non-empty key in every state, and no step changes it.
C26_NewKeepsGivenKey ==
    [][/\ \A k \in NewKeys, opts \in OptLists :
              New(k, opts) =>
                  IF k = ""
                  THEN client'.state = "failed" /\ client'.err = "API Key is empty"
                  ELSE client'.state = "ready" /\ client'.err = ""
                       /\ client'.apiKey = k
       /\ client.state = "ready" =>
              /\ client.apiKey # ""
              /\ client' = client]_vars

C26_Witness ==
    /\ client.state = "ready"
    /\ client.apiKey = "sk-other"
    /\ client.config.openAIModel = CallerModel
    /\ \E c \in Calls : Done(c) /\ calls[c].op = "OpenAITextToSpeech"
                          /\ calls[c].sent.auth = "Bearer sk-other"

\* the error of each step of the encoder taken alone, "" when the step passes
AbsentErr(q) == IF q.File = NilIface THEN ErrSTTFile ELSE ""
ResolveErr(q) ==
    IF q.File = NilIface THEN ""
    ELSE IF q.File.iface = "header" THEN (IF q.File.openOK THEN "" ELSE ErrSTTAccess)
    ELSE IF q.File.iface = "path" THEN (IF q.File.openOK THEN "" ELSE ErrSTTOpen)
    ELSE IF q.File.iface = "reader" THEN (IF q.Filename # <<>> THEN "" ELSE ErrSTTFilename)
    ELSE ErrSTTFileType
ExtensionErr(q) ==
    IF AbsentErr(q) # "" \/ ResolveErr(q) # "" THEN ""
    ELSE IF LastDotSuffix(sttFileName(q)) \in AcceptedExts THEN "" ELSE ErrSTTExt
TemperatureErr(q) == IF q.Temperature \in 0..100 THEN "" ELSE ErrSTTTemperature
EncoderStepErrs == {ErrSTTFile, ErrSTTAccess, ErrSTTOpen, ErrSTTFilename,
                    ErrSTTFileType, ErrSTTExt, ErrSTTTemperature}
\* the error of the earliest failing step of a sequence of steps
EarliestErr(errs) ==
    LET I == {i \in 1..Len(errs) : errs[i] # ""} IN
    IF I = {} THEN "" ELSE errs[CHOOSE i \in I : \A k \in I : i <= k]
\* the call returned e and sent nothing, or, for e = "", none of the steps' errors
ReturnsStepErr(c, e) ==
    IF e = "" THEN ~(Done(c) /\ calls[c].ret.kind = "error"
                     /\ calls[c].ret.msg \in EncoderStepErrs)
    ELSE Done(c) /\ calls[c].ret.kind = "error" /\ calls[c].ret.msg = e
         /\ calls[c].http = 0

\* C27 as stated: the encoder resolves the file (I/O error if unreadable), then
\* checks the extension, then the temperature range, then builds the body, and
\* the error returned is that of the earliest failing step in this order.
C27_FileExtensionTemperatureOrder ==
    \A c \in Calls :
        OnEncoder(c) =>
            LET q == EncoderInput(calls[c]) IN
            ReturnsStepErr(c, EarliestErr(<<AbsentErr(q), ResolveErr(q), ExtensionErr(q),
                                           TemperatureErr(q)>>))

\* C27 as amended: the encoder rejects an absent file, then checks the
\* temperature range, then resolves the file, then checks the extension, then
\* builds the body, and the error returned is that of the earliest failing step
\* in this order.
C27_TemperatureBeforeFileOrder ==
    \A c \in Calls :
        OnEncoder(c) =>
            LET q == EncoderInput(calls[c]) IN
            ReturnsStepErr(c, EarliestErr(<<AbsentErr(q), TemperatureErr(q), ResolveErr(q),
                                           ExtensionErr(q)>>))

C27_Witness ==
    \E c \in Calls :
        /\ Done(c)
        /\ calls[c].op = "OpenAISpeechToTextDefault"
        /\ calls[c].args.File.iface = "path"
        /\ ~calls[c].args.File.openOK
        /\ calls[c].args.Temperature = 150
        /\ calls[c].ret = Fail(ErrSTTTemperature, "")
        /\ calls[c].log = <<>>

\* the base name of a path: what follows its last separator
LastElement(toks) ==
    LET I == {i \in 1..Len(toks) : toks[i] = "/"} IN
    IF I = {} THEN toks
    ELSE SubSeq(toks, (CHOOSE i \in I : \A k \in I : k <= i) + 1, Len(toks))
\* the call failed with error e before anything was sent
FailedUnsent(c, e) ==
    /\ Done(c)
    /\ calls[c].ret.kind = "error" /\ calls[c].ret.msg = e
    /\ calls[c].http = 0 /\ calls[c].sent = NoReq
\* the encoder went on with this file name: none of the resolution errors, and
\* the file part of a body it built carries the name
ResolvedAs(c, name) ==
    /\ ~(calls[c].ret.kind = "error"
          /\ calls[c].ret.msg \in {ErrSTTFile, ErrSTTAccess, ErrSTTOpen, ErrSTTFilename,
                                    ErrSTTFileType})
    /\ FormBuilt(c) => FormOf(calls[c])[1] = <<"file", Join(name)>>
    /\ (Done(c) /\ calls[c].ret.msg = ErrSTTExt) =>
           calls[c].ret.detail = LastDotSuffix(name)

C29_HandleReleasedBeforeExchange ==
    \A c \in Calls :
        (OnEncoder(c) /\ Count(calls[c].log, "file.Open") = 1
                      /\ Count(calls[c].log, "client.Do") = 1) =>
            /\ calls[c].pc = "inflight" => calls[c].fh # "open"
            /\ Count(calls[c].log, "file.Close") = 1
            /\ First(calls[c].log, "file.Close") < First(calls[c].log, "client.Do")

JsonOps == ChatOps \cup {"OpenAICreateImageDallE", "OpenAITextToSpeech"}
\* the reads of the response body by the handler itself
BodyReads(log) == Count(log, "body.Decode") + Count(log, "body.ReadAll")

\* C30: in chat completion, image generation and text-to-speech, the body of a
\* received response is closed exactly once on every exit path; on a status
\* other than 200 it is read to the end before it is closed, and on 200 the
\* cleanup does not read it before the decoder does.
C30_ResponseBodyClosedOnce ==
    \A c \in Calls :
        (calls[c].op \in JsonOps /\ Done(c)) =>
            LET log == calls[c].log IN
            IF calls[c].http = 0 \/ calls[c].resp.net # "ok"
            THEN Count(log, "body.Close") = 0 /\ Count(log, "body.Drain") = 0
                 /\ BodyReads(log) = 0
            ELSE /\ Count(log, "body.Close") = 1
                 /\ log[Len(log)] = "body.Close"
                 /\ IF calls[c].resp.code # StatusOK
                    THEN /\ Count(log, "body.Drain") = 1
                         /\ First(log, "body.Drain") < First(log, "body.Close")
                         /\ BodyReads(log) = 0
                    ELSE /\ Count(log, "body.Drain") = 0
                         /\ BodyReads(log) = 1

C30_Witness ==
    \E c \in Calls :
        /\ Done(c)
        /\ calls[c].op = "OpenAICreateImageDallE"
        /\ calls[c].resp.code = 401
        /\ calls[c].ret.kind = "error"
        /\ calls[c].log = <<"client.Do", "body.Drain", "body.Close">>
====
